---- MODULE Spec2Model ----
(***************************************************************************)
(* Authentication / session / device-binding engine of the Gmail Checker   *)
(* authentication server (routes/auth.js, routes/admin.js,                  *)
(* middleware/auth.js, middleware/security.js, models/User.js).            *)
(*                                                                         *)
(* The account collection is `db`; the session store is `sess`, one entry  *)
(* per client cookie jar; a destroyed session is replaced by a new, empty  *)
(* one on the client's next request (express-session).                     *)
(* The two login handlers suspend at their awaits, so they are modelled as *)
(* several steps with the account document they read kept in `proc`.       *)
(* A client sends one request at a time: proc[s] is the login request of   *)
(* the client that holds session s; requests of different clients          *)
(* interleave at every await.                                              *)
(* A session identifier is the pair of the client and the generation       *)
(* number sess[s].sid: genid draws fresh random identifiers, so every new  *)
(* session of a client gets the next number. The store is written at once  *)
(* (no request-local copy of a session is kept).                           *)
(***************************************************************************)
EXTENDS Integers, FiniteSets, Sequences, TLC

VARIABLES db, sess, proc, now, nextTok, resetSeen, packages, limits,
          cache, timers, queue, clock, nextTimer

\* the SimpleCache instance of utils/cache.js, its pending timeouts and the
\* clock that Date.now() reads
cacheVars == <<cache, timers, queue, clock, nextTimer>>

vars == <<db, sess, proc, now, nextTok, resetSeen, packages, limits, cacheVars>>

----------------------------------------------------------------------------
(* Bounds of the model *)

MaxTime == 1
MaxTokens == 2
MaxSid == 3
MaxClock == 3
MaxTimers == 3

(* Small input sets *)

None == "none"
\* an absent Date field (packageEndDate, lastLogin)
NoDate == -1
Users == {"alice", "root"}
Targets == {"alice"}
Usernames == {"alice", "nobody"}
Devices == {"dev-1", "dev-2"}
DeviceInputs == Devices \cup {""}
Passwords == {"correctpw", "wrongpw"}
\* the password field of the login form; "" is an empty field
PasswordInputs == Passwords \cup {""}
Sessions == {"s1", "s2"}
EndDates == {0, 1}
Roles == {"user", "admin"}
TokenIds == 1..MaxTokens
\* the ids of the Package documents
Packages == {"basic", "pro"}
\* the _csrf field of a submitted form; 0 is a request without one
CsrfInputs == 0..MaxSid
\* the emailCredits and concurrencyLimit fields of the package forms
CreditInputs == {-1, 0, 1000000, 1000001}
LimitInputs == {0, 1, 1000, 1001}
\* emailCredits and concurrencyLimit of the first default package
DefaultLimits == [emailCredits |-> 100, concurrencyLimit |-> 5]

\* utils/cache.js: the keys and values that callers cache, and the ttl
\* arguments of set, in ticks of the clock
Keys == {"k1", "k2"}
Values == {"v1", "v2"}
Ttls == {0, 1, 2}
\* cache.get(key) of an absent key, and the absent entry of the timers map
NoItem == [value |-> None, expiry |-> -1, gen |-> 0]
NoTimer == 0

----------------------------------------------------------------------------
(* models/User.js *)

\* bcrypt.hash: a salted one-way digest, modelled as a tagged value
Hash(pw) == <<"bcrypt", pw>>

\* userSchema.methods.comparePassword
comparePassword(user, candidatePassword) == Hash(candidatePassword) = user.password

\* mutant: no account counts as an administrator
isAdmin_Never(user) == FALSE

\* userSchema.methods.isAdmin
isAdmin(user) == user.role = "admin"

\* userSchema.methods.isPackageValid: this.isActive && this.packageEndDate > now
\* (an absent end date compares false)
isPackageValid(user) ==
  user.isActive /\ user.packageEndDate # NoDate /\ user.packageEndDate > now

\* mutant: the activation flag is not looked at
Deactivated_Ignored(user) == FALSE

\* "if (!user.isActive)" of the login and verify-token handlers
Deactivated(user) == ~user.isActive

\* a document that is not in the collection
NoUser ==
  [exists |-> FALSE, role |-> "user", isActive |-> FALSE, packageEndDate |-> NoDate,
   registeredDeviceId |-> None, password |-> Hash(""), lastLogin |-> NoDate,
   package |-> None, username |-> None, email |-> None]

\* User.findOne({ username }): the id of a stored document with that username
FindByUsername(username) ==
  IF \E u \in Users : db[u].exists /\ db[u].username = username
  THEN CHOOSE u \in Users : db[u].exists /\ db[u].username = username
  ELSE None

\* User.findOne({ email }): the id of a stored document with that email
FindByEmail(email) ==
  IF \E u \in Users : db[u].exists /\ db[u].email = email
  THEN CHOOSE u \in Users : db[u].exists /\ db[u].email = email
  ELSE None

----------------------------------------------------------------------------
(* Sessions *)

NoDevices == [u \in Users |-> None]

\* req.session.user is undefined
NoIdentity == [id |-> None, role |-> None, isActive |-> FALSE]

\* a new session: sid is its identifier, csrfToken 0 is "no token yet", old is
\* "Date.now() - createdAt > 2 hours" (false while createdAt is not set),
\* returnTo is the URL that isAuthenticated stored
EmptySession ==
  [user |-> NoIdentity, desktopTokens |-> {}, activeDevicesSet |-> FALSE,
   activeDevices |-> NoDevices, sid |-> 1, csrfToken |-> 0, old |-> FALSE,
   returnTo |-> None]

\* the session generated after session x was destroyed or regenerated
Fresh(x) == [EmptySession EXCEPT !.sid = x.sid + 1]

\* req.session.user as stored by POST /auth/login from the document it read
IdentityPayload(uid, user) ==
  [id |-> uid, role |-> user.role, isActive |-> user.isActive]

\* middleware/auth.js loadUser: TRUE when the session survives it
LoadUserKeeps(s) ==
  \/ sess[s].user.id = None
  \/ LET user == db[sess[s].user.id]
     IN  user.exists /\ user.isActive /\ (isAdmin(user) \/ isPackageValid(user))

\* middleware/security.js sessionSecurity: the session is regenerated
Regenerates(s) == sess[s].user.id # None /\ sess[s].old

\* sessionSecurity on session x: regenerate() leaves a new, empty session,
\* and the callback sets nothing but createdAt
SessionSecurity(x) == IF x.user.id # None /\ x.old THEN Fresh(x) ELSE x

\* csrfProtection: "if (!req.session.csrfToken)" a random token is stored; the
\* token generated in a session is numbered after that session
CsrfEnsure(x) == IF x.csrfToken = 0 THEN [x EXCEPT !.csrfToken = x.sid] ELSE x

\* csrfProtection lets the request through
CsrfAccepts(x, method, c) == method = "GET" \/ (c # 0 /\ c = x.csrfToken)

\* mutant: loadUser never destroys a session
SessionGone_Never(s) == FALSE

\* the session a handler sees after the app-level middleware ran;
\* req.session.destroy() of loadUser deletes req.session
SessionGone(s) == ~Regenerates(s) /\ ~LoadUserKeeps(s)

\* a request outside /auth/api/ passes sessionSecurity and csrfProtection
BrowserPasses(s, method, c) ==
  CsrfAccepts(CsrfEnsure(SessionSecurity(sess[s])), method, c)

\* the session of client s after sessionSecurity, csrfProtection and, when the
\* request got that far, loadUser
BrowserSession(s, method, c) ==
  LET x == CsrfEnsure(SessionSecurity(sess[s])) IN
    IF CsrfAccepts(x, method, c) /\ SessionGone(s) THEN Fresh(x) ELSE x

\* a POST of a form that was rendered for the session of client s
FormPostPasses(s) == BrowserPasses(s, "POST", sess[s].csrfToken)

\* no client runs out of session identifiers
SidBound == \A s \in Sessions : sess'[s].sid <= MaxSid

\* req.session.desktopTokens && req.session.desktopTokens[token]
HasToken(s, t) == \E r \in sess[s].desktopTokens : r.token = t

\* req.session.desktopTokens[token], for a token of the table
TokenData(s, t) == CHOOSE r \in sess[s].desktopTokens : r.token = t

----------------------------------------------------------------------------
Idle == [pc |-> "idle"]

\* the response of a login request
Done(kind, u, dev, status, msg, token) ==
  [pc |-> "done", kind |-> kind, uid |-> u, dev |-> dev,
   status |-> status, msg |-> msg, token |-> token]

Init ==
  /\ db = [u \in Users |->
            IF u = "root"
            THEN [exists |-> TRUE, role |-> "admin", isActive |-> TRUE,
                  packageEndDate |-> NoDate, registeredDeviceId |-> None,
                  password |-> Hash("correctpw"), lastLogin |-> NoDate,
                  package |-> None, username |-> u, email |-> u]
            ELSE [exists |-> TRUE, role |-> "user", isActive |-> TRUE,
                  packageEndDate |-> 1, registeredDeviceId |-> None,
                  password |-> Hash("correctpw"), lastLogin |-> NoDate,
                  package |-> "basic", username |-> u, email |-> u]]
  /\ sess = [s \in Sessions |->
              IF s = "s2"
              THEN [EmptySession EXCEPT !.user =
                      [id |-> "root", role |-> "admin", isActive |-> TRUE],
                      !.sid = 2, !.csrfToken = 1]
              ELSE EmptySession]
  /\ proc = [s \in Sessions |-> Idle]
  /\ now = 0
  /\ nextTok = 1
  /\ resetSeen = [u \in Users |-> FALSE]
  /\ packages = [k \in Packages |-> TRUE]
  /\ limits = [k \in Packages |-> DefaultLimits]
  /\ cache = [key \in Keys |-> NoItem]
  /\ timers = [key \in Keys |-> NoTimer]
  /\ queue = {}
  /\ clock = 0
  /\ nextTimer = 1

----------------------------------------------------------------------------
(* POST /auth/api/login (routes/auth.js) *)

\* the fields of the document that a login handler reads after its first await
Snapshot(user) ==
  [role |-> user.role, isActive |-> user.isActive,
   registeredDeviceId |-> user.registeredDeviceId]

\* the client of session s has no request in flight
CanSend(s) == proc[s].pc \in {"idle", "done"}

\* desktop logins that have passed the first checks and may still issue a token
InFlightApi == Cardinality({p \in Sessions : proc[p].pc \in {"found", "bound"} /\ proc[p].kind = "api"})

\* the app-level middleware on a request under /auth/api/ of session s:
\* sessionSecurity regenerates an old session, csrfProtection is skipped,
\* loadUser destroys a session whose account is gone, deactivated or expired
AfterMiddleware(s) ==
  IF Regenerates(s) \/ SessionGone(s) THEN [sess EXCEPT ![s] = Fresh(sess[s])] ELSE sess

\* mutant: the device check is skipped
DeviceMismatch_Skipped(user, device_id) == FALSE

\* the device check of the handler on the document it read
DeviceMismatch(user, device_id) ==
  user.registeredDeviceId # None /\ user.registeredDeviceId # device_id

\* mutant: the binding is never saved
NeedsBinding_Never(user) == FALSE

\* mutant: the binding is saved on every login
NeedsBinding_Always(user) == TRUE

\* "if (user.registeredDeviceId) ... else": does the handler write the binding
NeedsBinding(user) == user.registeredDeviceId = None

\* mutant: the password comparison is not looked at
PasswordRejected_Never(r) == FALSE

\* "if (!isMatch)" of the login handlers
PasswordRejected(r) == ~r.isMatch

\* validation, User.findOne and the checks that follow it without suspending
ApiLoginFind(s, username, password, device_id) ==
  /\ CanSend(s)
  /\ nextTok + InFlightApi <= MaxTokens
  /\ sess' = AfterMiddleware(s)
  /\ SidBound
  /\ LET uid == FindByUsername(username) IN
       proc' = [proc EXCEPT ![s] =
         IF device_id = "" THEN
           Done("api", None, "", 400, "Validation failed", 0)
         ELSE IF uid = None THEN
           Done("api", None, "", 401, "Invalid username or password", 0)
         ELSE IF Deactivated(db[uid]) THEN
           Done("api", uid, device_id, 403, "deactivated", 0)
         ELSE IF ~isAdmin(db[uid]) /\ ~isPackageValid(db[uid]) THEN
           Done("api", uid, device_id, 403, "expired", 0)
         ELSE
           [pc |-> "found", kind |-> "api", uid |-> uid, dev |-> device_id,
            isMatch |-> comparePassword(db[uid], password), user |-> Snapshot(db[uid]),
            gone |-> SessionGone(s)]]
  /\ UNCHANGED <<db, now, nextTok, resetSeen, packages, limits, cacheVars>>

\* user.lastLogin = new Date(); await user.save(); then the token is stored in
\* req.session.desktopTokens and returned. A save of a deleted document throws,
\* and so does the use of a destroyed req.session: both end in the 500 handler.
ApiIssue(p) ==
  LET r == proc[p] IN
  IF ~db[r.uid].exists THEN
    /\ proc' = [proc EXCEPT ![p] = Done("api", r.uid, r.dev, 500, "error", 0)]
    /\ UNCHANGED <<db, sess, nextTok>>
  ELSE
    /\ db' = [db EXCEPT ![r.uid].lastLogin = now]
    /\ IF r.gone THEN
         /\ proc' = [proc EXCEPT ![p] = Done("api", r.uid, r.dev, 500, "error", 0)]
         /\ UNCHANGED <<sess, nextTok>>
       ELSE
         /\ sess' = [sess EXCEPT ![p].desktopTokens =
                       @ \cup {[token |-> nextTok, userId |-> r.uid, deviceId |-> r.dev]}]
         /\ nextTok' = nextTok + 1
         /\ proc' = [proc EXCEPT ![p] =
                       Done("api", r.uid, r.dev, 200, "Login successful", nextTok)]

\* comparePassword, the device check and the first user.save()
ApiLoginBind(p) ==
  /\ proc[p].pc = "found" /\ proc[p].kind = "api"
  /\ LET r == proc[p] IN
     IF PasswordRejected(r) THEN
       /\ proc' = [proc EXCEPT ![p] =
                     Done("api", r.uid, r.dev, 401, "Invalid username or password", 0)]
       /\ UNCHANGED <<db, sess, nextTok, resetSeen>>
     ELSE IF DeviceMismatch(r.user, r.dev) THEN
       /\ proc' = [proc EXCEPT ![p] = Done("api", r.uid, r.dev, 403, "device", 0)]
       /\ UNCHANGED <<db, sess, nextTok, resetSeen>>
     ELSE IF NeedsBinding(r.user) THEN
       IF ~db[r.uid].exists THEN
         /\ proc' = [proc EXCEPT ![p] = Done("api", r.uid, r.dev, 500, "error", 0)]
         /\ UNCHANGED <<db, sess, nextTok, resetSeen>>
       ELSE
         /\ db' = [db EXCEPT ![r.uid].registeredDeviceId = r.dev]
         /\ resetSeen' = [resetSeen EXCEPT ![r.uid] = FALSE]
         /\ proc' = [proc EXCEPT ![p].pc = "bound"]
         /\ UNCHANGED <<sess, nextTok>>
     ELSE
       /\ ApiIssue(p)
       /\ UNCHANGED resetSeen
  /\ UNCHANGED <<now, packages, limits, cacheVars>>

\* the second user.save() and the token issue, after the binding was saved
ApiLoginIssue(p) ==
  /\ proc[p].pc = "bound"
  /\ ApiIssue(p)
  /\ UNCHANGED <<now, resetSeen, packages, limits, cacheVars>>

\* the second user.save() rejects (the database is unreachable, the write
\* fails): the catch block answers 500 and the first save stays as it is
ApiLoginSaveFails(p) ==
  /\ proc[p].pc = "bound" /\ proc[p].kind = "api"
  /\ proc' = [proc EXCEPT ![p] = Done("api", proc[p].uid, proc[p].dev, 500, "error", 0)]
  /\ UNCHANGED <<db, sess, now, nextTok, resetSeen, packages, limits, cacheVars>>

----------------------------------------------------------------------------
(* POST /auth/api/verify-token and POST /auth/api/logout; token 0 is a      *)
(* request without a token                                                  *)

\* mutant: verify-token does not compare devices
DeviceStillActive_Unchecked(s, tokenData) == TRUE

\* "req.session.activeDevices[userId] !== tokenData.deviceId" is false
DeviceStillActive(s, tokenData) ==
  sess[s].activeDevices[tokenData.userId] = tokenData.deviceId

VerifyStatus(s, t) ==
  IF t = 0 THEN 400
  ELSE IF SessionGone(s) THEN 500
  ELSE IF Regenerates(s) THEN 401
  ELSE IF ~HasToken(s, t) THEN 401
  ELSE LET tokenData == TokenData(s, t)
           user == db[tokenData.userId] IN
    IF ~user.exists THEN 401
    ELSE IF Deactivated(user) THEN 403
    ELSE IF ~isAdmin(user) /\ ~isPackageValid(user) THEN 403
    ELSE IF ~DeviceStillActive(s, tokenData) THEN 401
    ELSE 200

\* TRUE when the handler reaches the device check
VerifyReachesDeviceCheck(s, t) ==
  /\ t # 0 /\ ~SessionGone(s) /\ ~Regenerates(s) /\ HasToken(s, t)
  /\ LET user == db[TokenData(s, t).userId] IN
       user.exists /\ ~Deactivated(user) /\ (isAdmin(user) \/ isPackageValid(user))

\* mutant: a verify that answers 403 deletes the token record as well
Rejected403_DropsToken(x, tokenData) ==
  [x EXCEPT !.desktopTokens = @ \ {tokenData}]

\* the session after verify-token answered 403 (deactivated or expired): the
\* handler returns before it touches req.session
Rejected403(x, tokenData) == x

\* the session store after POST /auth/api/verify-token of client s with token t
AfterVerify(s, t) ==
  IF SessionGone(s) \/ Regenerates(s) THEN AfterMiddleware(s)
  ELSE IF VerifyReachesDeviceCheck(s, t) THEN
    [sess EXCEPT ![s].activeDevicesSet = TRUE,
                 ![s].desktopTokens =
                    IF DeviceStillActive(s, TokenData(s, t)) THEN @
                    ELSE @ \ {TokenData(s, t)}]
  ELSE IF VerifyStatus(s, t) = 403 THEN
    [sess EXCEPT ![s] = Rejected403(sess[s], TokenData(s, t))]
  ELSE sess

VerifyToken(s, t) ==
  /\ CanSend(s)
  /\ sess' = AfterVerify(s, t)
  /\ sess' # sess
  /\ SidBound
  /\ UNCHANGED <<db, proc, now, nextTok, resetSeen, packages, limits, cacheVars>>

LogoutStatus(s, t) ==
  IF t = 0 THEN 400
  ELSE IF SessionGone(s) THEN 500
  ELSE IF Regenerates(s) THEN 401
  ELSE IF HasToken(s, t) THEN 200
  ELSE 401

\* mutant: the logout answers 200 and keeps the token record
LoggedOut_KeepsToken(x, tokenData) ==
  [x EXCEPT !.activeDevices[tokenData.userId] = None]

\* "delete req.session.activeDevices[userId]" and
\* "delete req.session.desktopTokens[token]" on session x
LoggedOut(x, tokenData) ==
  [x EXCEPT !.activeDevices[tokenData.userId] = None,
            !.desktopTokens = @ \ {tokenData}]

\* the session store after POST /auth/api/logout of client s with token t
AfterLogout(s, t) ==
  IF SessionGone(s) \/ Regenerates(s) THEN AfterMiddleware(s)
  ELSE IF LogoutStatus(s, t) = 200 THEN
    [sess EXCEPT ![s] = LoggedOut(sess[s], TokenData(s, t))]
  ELSE sess

ApiLogout(s, t) ==
  /\ CanSend(s)
  /\ sess' = AfterLogout(s, t)
  /\ sess' # sess
  /\ SidBound
  /\ UNCHANGED <<db, proc, now, nextTok, resetSeen, packages, limits, cacheVars>>

----------------------------------------------------------------------------
(* POST /auth/login and POST /auth/logout (routes/auth.js); a rendered      *)
(* login page with an error is status 200, the redirect is 302              *)

\* csrfProtection and loadUser, "Validation failed" and User.findOne with the
\* checks that follow it without suspending; the form carries the session's token
WebLoginFind(s, email, password) ==
  /\ CanSend(s)
  /\ FormPostPasses(s)
  /\ sess' = [sess EXCEPT ![s] = BrowserSession(s, "POST", sess[s].csrfToken)]
  /\ SidBound
  /\ LET uid == FindByEmail(email) IN
       proc' = [proc EXCEPT ![s] =
         IF password = "" THEN
           Done("web", None, "", 200, "Validation failed", 0)
         ELSE IF uid = None THEN
           Done("web", None, "", 200, "Invalid email or password", 0)
         ELSE IF Deactivated(db[uid]) THEN
           Done("web", uid, "", 200, "deactivated", 0)
         ELSE IF ~isAdmin(db[uid]) /\ ~isPackageValid(db[uid]) THEN
           Done("web", uid, "", 200, "expired", 0)
         ELSE
           [pc |-> "found", kind |-> "web", uid |-> uid, dev |-> "",
            isMatch |-> comparePassword(db[uid], password), user |-> Snapshot(db[uid]),
            gone |-> SessionGone(s)]]
  /\ UNCHANGED <<db, now, nextTok, resetSeen, packages, limits, cacheVars>>

\* mutant: the identity is stored in the session the request came with
Regenerated_SameId(x, uid, user) == [x EXCEPT !.user = IdentityPayload(uid, user)]

\* req.session.regenerate and its callback: a new session with the identity
\* payload, res.locals.csrfToken (the token of the session the request came
\* with) and createdAt = Date.now()
Regenerated(x, uid, user) ==
  [Fresh(x) EXCEPT !.user = IdentityPayload(uid, user), !.csrfToken = x.csrfToken]

\* "req.session.returnTo || "/dashboard"" in the regenerate callback, where
\* req.session is the new session x
RedirectTarget(x) ==
  IF x.returnTo # None THEN x.returnTo ELSE "/dashboard"

\* comparePassword, the lastLogin save and req.session.regenerate; err is the
\* error that the store hands to the regenerate callback: the old session
\* then stays in the store under the identifier the client holds
WebLoginFinish(p, err) ==
  /\ proc[p].pc = "found" /\ proc[p].kind = "web"
  /\ LET r == proc[p] IN
     IF PasswordRejected(r) THEN
       /\ ~err
       /\ proc' = [proc EXCEPT ![p] =
                     Done("web", r.uid, "", 200, "Invalid email or password", 0)]
       /\ UNCHANGED <<db, sess>>
     ELSE IF ~db[r.uid].exists THEN
       /\ ~err
       /\ proc' = [proc EXCEPT ![p] = Done("web", r.uid, "", 200, "error", 0)]
       /\ UNCHANGED <<db, sess>>
     ELSE
       /\ db' = [db EXCEPT ![r.uid].lastLogin = now]
       /\ IF r.gone \/ err THEN
            /\ ~(r.gone /\ err)
            /\ proc' = [proc EXCEPT ![p] = Done("web", r.uid, "", 200, "error", 0)]
            /\ UNCHANGED sess
          ELSE
            /\ sess' = [sess EXCEPT ![p] = Regenerated(sess[p], r.uid, r.user)]
            /\ proc' = [proc EXCEPT ![p] =
                 Done("web", r.uid, "", 302,
                      RedirectTarget(Regenerated(sess[p], r.uid, r.user)), 0)]
  /\ SidBound
  /\ UNCHANGED <<now, nextTok, resetSeen, packages, limits, cacheVars>>

\* the session holds something that a destroy removes from the store
Initialized(x) == x # [EmptySession EXCEPT !.sid = x.sid]

\* mutant: the logout drops the anti-forgery token and keeps the session
Destroyed_Kept(x) == [x EXCEPT !.csrfToken = 0]

\* req.session.destroy(): the identifier is removed from the store, the
\* client's next request starts a new session
Destroyed(x) == Fresh(x)

\* POST /auth/logout with the session's token: req.session.destroy(); when
\* loadUser has destroyed the session already the handler throws
WebLogout(s) ==
  /\ CanSend(s)
  /\ FormPostPasses(s)
  /\ sess' = [sess EXCEPT ![s] = Destroyed(sess[s])]
  /\ SidBound
  /\ proc' = [proc EXCEPT ![s] = Done("logout", None, "", 302, "POST /logout", 0)]
  /\ UNCHANGED <<db, now, nextTok, resetSeen, packages, limits, cacheVars>>

\* GET /auth/logout of the older routes/auth.js: csrfProtection lets every GET
\* through, the handler destroys the session
GetLogout(s) ==
  /\ CanSend(s)
  /\ Initialized(sess[s])
  /\ sess' = [sess EXCEPT ![s] = Destroyed(sess[s])]
  /\ SidBound
  /\ proc' = [proc EXCEPT ![s] = Done("logout", None, "", 302, "GET /logout", 0)]
  /\ UNCHANGED <<db, now, nextTok, resetSeen, packages, limits, cacheVars>>

\* a GET of any page: sessionSecurity, csrfProtection (a token is generated on
\* first need) and loadUser
PageRequest(s) ==
  /\ CanSend(s)
  /\ sess' = [sess EXCEPT ![s] = BrowserSession(s, "GET", 0)]
  /\ sess' # sess
  /\ SidBound
  /\ UNCHANGED <<db, proc, now, nextTok, resetSeen, packages, limits, cacheVars>>

\* a GET of a URL behind isAuthenticated without a logged-in session: the URL
\* is stored as returnTo (unless loadUser destroyed the session) and the
\* client is sent to the login page
ProtectedRequest(s, url) ==
  /\ CanSend(s)
  /\ BrowserSession(s, "GET", 0).user.id = None
  /\ sess' = [sess EXCEPT ![s] =
                IF SessionGone(s) THEN BrowserSession(s, "GET", 0)
                ELSE [BrowserSession(s, "GET", 0) EXCEPT !.returnTo = url]]
  /\ SidBound
  /\ proc' = [proc EXCEPT ![s] = Done("web", None, "", 302, "/auth/login", 0)]
  /\ UNCHANGED <<db, now, nextTok, resetSeen, packages, limits, cacheVars>>

\* GET /auth/login without a logged-in session: the page is rendered and
\* returnTo is deleted from the session
LoginPage(s) ==
  /\ CanSend(s)
  /\ BrowserSession(s, "GET", 0).user.id = None
  /\ sess' = [sess EXCEPT ![s] = [BrowserSession(s, "GET", 0) EXCEPT !.returnTo = None]]
  /\ SidBound
  /\ proc' = [proc EXCEPT ![s] = Done("web", None, "", 200, "login", 0)]
  /\ UNCHANGED <<db, now, nextTok, resetSeen, packages, limits, cacheVars>>

\* GET /dashboard of a logged-in session up to "await User.findById" of
\* checkPackageValidity: sessionSecurity, csrfProtection, loadUser and
\* isAuthenticated have let the request through
DashboardLoad(s) ==
  /\ CanSend(s)
  /\ BrowserSession(s, "GET", 0).user.id # None
  /\ sess' = [sess EXCEPT ![s] = BrowserSession(s, "GET", 0)]
  /\ SidBound
  /\ proc' = [proc EXCEPT ![s] =
                [pc |-> "checking", kind |-> "dash", uid |-> sess[s].user.id]]
  /\ UNCHANGED <<db, now, nextTok, resetSeen, packages, limits, cacheVars>>

\* the rest of checkPackageValidity on the document it read: a missing or
\* deactivated account destroys the session, an expired package renders the
\* 403 page, otherwise req.session.user is refreshed from the document
DashboardCheck(s) ==
  /\ proc[s].pc = "checking" /\ proc[s].kind = "dash"
  /\ LET uid == proc[s].uid
         user == db[uid] IN
       IF ~user.exists THEN
         /\ sess' = [sess EXCEPT ![s] = Destroyed(sess[s])]
         /\ proc' = [proc EXCEPT ![s] = Done("dash", uid, "", 302, "/auth/login", 0)]
       ELSE IF ~user.isActive THEN
         /\ sess' = [sess EXCEPT ![s] = Destroyed(sess[s])]
         /\ proc' = [proc EXCEPT ![s] = Done("dash", uid, "", 403, "deactivated", 0)]
       ELSE IF ~isAdmin(user) /\ ~isPackageValid(user) THEN
         /\ sess' = sess
         /\ proc' = [proc EXCEPT ![s] = Done("dash", uid, "", 403, "expired", 0)]
       ELSE
         /\ sess' = [sess EXCEPT ![s].user = IdentityPayload(uid, user)]
         /\ proc' = [proc EXCEPT ![s] = Done("dash", uid, "", 200, "dashboard", 0)]
  /\ SidBound
  /\ UNCHANGED <<db, now, nextTok, resetSeen, packages, limits, cacheVars>>

\* a POST outside /auth/api/ whose _csrf field c is not the session's token:
\* csrfProtection answers 403 and neither loadUser nor the handler runs
ForgedPost(s, c) ==
  /\ CanSend(s)
  /\ ~BrowserPasses(s, "POST", c)
  /\ sess' = [sess EXCEPT ![s] = BrowserSession(s, "POST", c)]
  /\ SidBound
  /\ proc' = [proc EXCEPT ![s] = Done("web", None, "", 403, "csrf", 0)]
  /\ proc' # proc
  /\ UNCHANGED <<db, now, nextTok, resetSeen, packages, limits, cacheVars>>

\* more than two hours have passed since the login set createdAt
SessionAges(s) ==
  /\ sess[s].user.id # None
  /\ ~sess[s].old
  /\ sess' = [sess EXCEPT ![s].old = TRUE]
  /\ UNCHANGED <<db, proc, now, nextTok, resetSeen, packages, limits, cacheVars>>

\* the callback of sessionSecurity reads req.session.user.username of the new
\* session and throws: the request may end there, with no response
RegenerateAborts(s) ==
  /\ CanSend(s)
  /\ Regenerates(s)
  /\ sess' = [sess EXCEPT ![s] = SessionSecurity(sess[s])]
  /\ SidBound
  /\ UNCHANGED <<db, proc, now, nextTok, resetSeen, packages, limits, cacheVars>>

----------------------------------------------------------------------------
(* routes/admin.js, behind loadUser, isAuthenticated and isAdmin *)

\* mutant: isAdmin lets every authenticated session through
AdminGate_NoRoleCheck(a) ==
  /\ CanSend(a)
  /\ sess[a].user.id # None
  /\ FormPostPasses(a)
  /\ LoadUserKeeps(a)

\* mutant: isAdmin trusts the role stored in the session at login
AdminGate_TrustsPayload(a) ==
  /\ CanSend(a)
  /\ sess[a].user.id # None
  /\ FormPostPasses(a)
  /\ LoadUserKeeps(a)
  /\ sess[a].user.role = "admin"

\* the request of session a reaches an admin handler
AdminGate(a) ==
  /\ CanSend(a)
  /\ sess[a].user.id # None
  /\ FormPostPasses(a)
  /\ LoadUserKeeps(a)
  /\ db[sess[a].user.id].role = "admin"

\* mutant: the reset answers without clearing the bound device
ResetDevice_KeepsBinding(a, u) ==
  /\ AdminGate(a)
  /\ db[u].exists
  /\ resetSeen' = [resetSeen EXCEPT ![u] = TRUE]
  /\ UNCHANGED <<db, sess, proc, now, nextTok, packages, limits, cacheVars>>

\* POST /admin/users/reset-device/:id
ResetDevice(a, u) ==
  /\ AdminGate(a)
  /\ db[u].exists
  /\ db' = [db EXCEPT ![u].registeredDeviceId = None]
  /\ resetSeen' = [resetSeen EXCEPT ![u] = TRUE]
  /\ UNCHANGED <<sess, proc, now, nextTok, packages, limits, cacheVars>>

\* mutant: the bulk update also clears the bound device
BulkSetActive_AlsoUnbinds(a, userIds, flag) ==
  /\ AdminGate(a)
  /\ db' = [u \in Users |->
              IF u \in userIds /\ db[u].exists
              THEN [db[u] EXCEPT !.isActive = flag, !.registeredDeviceId = None]
              ELSE db[u]]
  /\ db' # db
  /\ UNCHANGED <<sess, proc, now, nextTok, resetSeen, packages, limits, cacheVars>>

\* POST /admin/users/bulk-action, activate and deactivate: User.updateMany
BulkSetActive(a, userIds, flag) ==
  /\ AdminGate(a)
  /\ db' = [u \in Users |->
              IF u \in userIds /\ db[u].exists THEN [db[u] EXCEPT !.isActive = flag]
              ELSE db[u]]
  /\ db' # db
  /\ UNCHANGED <<sess, proc, now, nextTok, resetSeen, packages, limits, cacheVars>>

\* mutant: every save hashes the password field again
PreSave_AlwaysHashes(user, password) ==
  Hash(IF password = "" THEN "rehashed" ELSE password)

\* "if (password && password.trim() !== "") user.password = password" and the
\* pre-save hook, which hashes the field only when it was modified: the
\* password field of the document that user.save() stores
PreSave(user, password) ==
  IF password = "" THEN user.password ELSE Hash(password)

\* POST /admin/users/edit/:id with the fields of the form: role, package, end
\* date, activation flag and the optional new password
EditUserForm(a, u, role, package, packageEndDate, isActive, password) ==
  /\ AdminGate(a)
  /\ db[u].exists
  /\ db' = [db EXCEPT ![u] =
              [@ EXCEPT !.role = role, !.package = package,
                        !.packageEndDate = packageEndDate, !.isActive = isActive,
                        !.password = PreSave(db[u], password)]]
  /\ db' # db
  /\ UNCHANGED <<sess, proc, now, nextTok, resetSeen, packages, limits, cacheVars>>

\* POST /admin/users/edit/:id: role, end date and activation flag of the form,
\* the package as it was and the password field left empty
EditUser(a, u, role, packageEndDate, isActive) ==
  EditUserForm(a, u, role, db[u].package, packageEndDate, isActive, "")

\* User.countDocuments({ role: "admin" })
AdminCount == Cardinality({u \in Users : db[u].exists /\ db[u].role = "admin"})

\* POST /admin/users/delete/:id
DeleteUser(a, u) ==
  /\ AdminGate(a)
  /\ db[u].exists
  /\ ~(db[u].role = "admin" /\ AdminCount <= 1)
  /\ db' = [db EXCEPT ![u] = NoUser]
  /\ UNCHANGED <<sess, proc, now, nextTok, resetSeen, packages, limits, cacheVars>>

\* a request of session a that is inside an admin handler, between two awaits
InHandler(a, pc, op) ==
  proc[a].pc = pc /\ proc[a].kind = "admin" /\ proc[a].op = op

\* the handler of session a suspends at an await
Await(pc, op, userIds, found, package) ==
  [pc |-> pc, kind |-> "admin", op |-> op, ids |-> userIds, found |-> found,
   package |-> package]

\* the redirect that ends an admin request
Redirect(msg) == Done("admin", None, "", 302, msg, 0)

\* POST /admin/users/delete/:id up to "await User.findById"
DeleteUserFind(a, u) ==
  /\ AdminGate(a)
  /\ proc' = [proc EXCEPT ![a] =
       IF ~db[u].exists THEN Redirect("User not found")
       ELSE IF db[u].role = "admin" THEN Await("counting", "delete", {u}, 1, None)
       ELSE Await("deleting", "delete", {u}, 0, None)]
  /\ UNCHANGED <<db, sess, now, nextTok, resetSeen, packages, limits, cacheVars>>

\* "await User.countDocuments({ role: "admin" })" and "if (adminCount <= 1)"
DeleteUserCount(a) ==
  /\ InHandler(a, "counting", "delete")
  /\ proc' = [proc EXCEPT ![a] =
       IF AdminCount <= 1 THEN Redirect("Cannot delete the last admin user")
       ELSE [@ EXCEPT !.pc = "deleting"]]
  /\ UNCHANGED <<db, sess, now, nextTok, resetSeen, packages, limits, cacheVars>>

\* "await User.findByIdAndDelete(req.params.id)"
DeleteUserCommit(a) ==
  /\ InHandler(a, "deleting", "delete")
  /\ db' = [u \in Users |-> IF u \in proc[a].ids THEN NoUser ELSE db[u]]
  /\ proc' = [proc EXCEPT ![a] = Redirect("User deleted successfully")]
  /\ UNCHANGED <<sess, now, nextTok, resetSeen, packages, limits, cacheVars>>

\* POST /admin/users/bulk-action, delete, up to
\* "await User.find({ _id: { $in: userIds }, role: "admin" })"
BulkDeleteFind(a, userIds) ==
  /\ AdminGate(a)
  /\ LET adminUsers == {u \in userIds : db[u].exists /\ db[u].role = "admin"} IN
       proc' = [proc EXCEPT ![a] =
         IF userIds = {} THEN Redirect("No users selected")
         ELSE IF Cardinality(adminUsers) > 0
           THEN Await("counting", "bulk", userIds, Cardinality(adminUsers), None)
         ELSE Await("deleting", "bulk", userIds, 0, None)]
  /\ UNCHANGED <<db, sess, now, nextTok, resetSeen, packages, limits, cacheVars>>

\* "await User.countDocuments({ role: "admin" })" and
\* "if (totalAdmins <= adminUsers.length)"
BulkDeleteCount(a) ==
  /\ InHandler(a, "counting", "bulk")
  /\ proc' = [proc EXCEPT ![a] =
       IF AdminCount <= proc[a].found THEN Redirect("Cannot delete all admin users")
       ELSE [@ EXCEPT !.pc = "deleting"]]
  /\ UNCHANGED <<db, sess, now, nextTok, resetSeen, packages, limits, cacheVars>>

\* "await User.deleteMany({ _id: { $in: userIds } })"
BulkDeleteCommit(a) ==
  /\ InHandler(a, "deleting", "bulk")
  /\ db' = [u \in Users |-> IF u \in proc[a].ids THEN NoUser ELSE db[u]]
  /\ proc' = [proc EXCEPT ![a] = Redirect("users deleted successfully")]
  /\ UNCHANGED <<sess, now, nextTok, resetSeen, packages, limits, cacheVars>>

\* User.countDocuments({ package: pkg._id })
UsersWithPackage(package) ==
  Cardinality({u \in Users : db[u].exists /\ db[u].package = package})

\* POST /admin/packages/delete/:id up to the answer of
\* "await User.countDocuments({ package: pkg._id })"
DeletePackageCount(a, package) ==
  /\ AdminGate(a)
  /\ proc' = [proc EXCEPT ![a] =
       IF ~packages[package] THEN Redirect("Package not found")
       ELSE IF UsersWithPackage(package) > 0
         THEN Redirect("Cannot delete package that is assigned to users")
       ELSE Await("deleting", "package", {}, 0, package)]
  /\ UNCHANGED <<db, sess, now, nextTok, resetSeen, packages, limits, cacheVars>>

\* "await PackageModel.findByIdAndDelete(req.params.id)"
DeletePackageCommit(a) ==
  /\ InHandler(a, "deleting", "package")
  /\ packages' = [packages EXCEPT ![proc[a].package] = FALSE]
  /\ proc' = [proc EXCEPT ![a] = Redirect("Package deleted successfully")]
  /\ UNCHANGED <<db, sess, now, nextTok, resetSeen, limits, cacheVars>>

\* User.findOne({ _id: { $ne: self }, $or: [{ email }, { username }] }) finds
\* a document; self is None in the create handler
ExistingUser(self, username, email) ==
  \E u \in Users \ {self} :
    db[u].exists /\ (db[u].username = username \/ db[u].email = email)

\* mutant: the collection has no unique index
DuplicateKey_Never(self, username, email) == FALSE

\* "unique: true" of the username and email paths: the unique indexes reject
\* the write of document self with a duplicate key error
DuplicateKey(self, username, email) ==
  \E u \in Users \ {self} :
    db[u].exists /\ (db[u].username = username \/ db[u].email = email)

\* a handler of session a is suspended at "await user.save()"
Saving(op, u, username, email) ==
  [pc |-> "saving", kind |-> "admin", op |-> op, uid |-> u,
   username |-> username, email |-> email]

\* the page that an admin form renders with an error
FormError(msg) == Done("admin", None, "", 200, msg, 0)

\* POST /admin/users/create up to "await newUser.save()": the existing-user
\* check and the package lookup
CreateUserCheck(a, username, email, package) ==
  /\ AdminGate(a)
  /\ proc' = [proc EXCEPT ![a] =
       IF ExistingUser(None, username, email)
         THEN FormError("User with this email or username already exists")
       ELSE IF ~packages[package] THEN FormError("Selected package not found")
       ELSE [Saving("create", None, username, email) EXCEPT !.uid = package]]
  /\ UNCHANGED <<db, sess, now, nextTok, resetSeen, packages, limits, cacheVars>>

\* "await newUser.save()": the document gets an id that no stored document
\* has, the role user and the activation flag true
CreateUserSave(a, u, packageEndDate, password) ==
  /\ InHandler(a, "saving", "create")
  /\ ~db[u].exists
  /\ IF DuplicateKey(u, proc[a].username, proc[a].email) THEN
       /\ proc' = [proc EXCEPT ![a] = FormError("An error occurred")]
       /\ UNCHANGED db
     ELSE
       /\ db' = [db EXCEPT ![u] =
            [exists |-> TRUE, role |-> "user", isActive |-> TRUE,
             packageEndDate |-> packageEndDate, registeredDeviceId |-> None,
             password |-> Hash(password), lastLogin |-> NoDate,
             package |-> proc[a].uid, username |-> proc[a].username,
             email |-> proc[a].email]]
       /\ proc' = [proc EXCEPT ![a] = Redirect("User created successfully")]
  /\ UNCHANGED <<sess, now, nextTok, resetSeen, packages, limits, cacheVars>>

\* POST /admin/users/edit/:id up to "await user.save()", with the username
\* and email of the form
EditNamesCheck(a, u, username, email) ==
  /\ AdminGate(a)
  /\ proc' = [proc EXCEPT ![a] =
       IF ~db[u].exists THEN Done("admin", None, "", 404, "User Not Found", 0)
       ELSE IF ExistingUser(u, username, email)
         THEN FormError("Username or email is already taken by another user")
       ELSE Saving("edit", u, username, email)]
  /\ UNCHANGED <<db, sess, now, nextTok, resetSeen, packages, limits, cacheVars>>

\* "await user.save()" of the edit handler: the save of a document that was
\* deleted meanwhile throws, and so does a duplicate key; the other fields of
\* the form are the ones the page was rendered with
EditNamesSave(a) ==
  /\ InHandler(a, "saving", "edit")
  /\ LET u == proc[a].uid IN
       IF ~db[u].exists \/ DuplicateKey(u, proc[a].username, proc[a].email) THEN
         /\ proc' = [proc EXCEPT ![a] = FormError("An error occurred")]
         /\ UNCHANGED db
       ELSE
         /\ db' = [db EXCEPT ![u].username = proc[a].username,
                              ![u].email = proc[a].email]
         /\ proc' = [proc EXCEPT ![a] = Redirect("User updated successfully")]
  /\ UNCHANGED <<sess, now, nextTok, resetSeen, packages, limits, cacheVars>>

\* the express-validator chain of the package forms: isInt({ min, max })
ValidPackageForm(emailCredits, concurrencyLimit) ==
  /\ emailCredits >= 0 /\ emailCredits <= 1000000
  /\ concurrencyLimit >= 1 /\ concurrencyLimit <= 1000

\* POST /admin/packages/edit/:id: a missing package is answered 404, a form
\* that fails validation is rendered again, otherwise pkg.save()
EditPackage(a, package, emailCredits, concurrencyLimit) ==
  /\ AdminGate(a)
  /\ IF ~packages[package] THEN
       /\ proc' = [proc EXCEPT ![a] = Done("admin", None, "", 404, "Package not found", 0)]
       /\ UNCHANGED limits
     ELSE IF ~ValidPackageForm(emailCredits, concurrencyLimit) THEN
       /\ proc' = [proc EXCEPT ![a] = Done("admin", None, "", 200, "validation", 0)]
       /\ UNCHANGED limits
     ELSE
       /\ limits' = [limits EXCEPT ![package] =
                       [emailCredits |-> emailCredits,
                        concurrencyLimit |-> concurrencyLimit]]
       /\ proc' = [proc EXCEPT ![a] = Redirect("Package updated successfully")]
  /\ UNCHANGED <<db, sess, now, nextTok, resetSeen, packages, cacheVars>>

\* POST /admin/packages/create: the new document takes an id that no stored
\* package has
CreatePackage(a, package, emailCredits, concurrencyLimit) ==
  /\ AdminGate(a)
  /\ ~packages[package]
  /\ IF ~ValidPackageForm(emailCredits, concurrencyLimit) THEN
       /\ proc' = [proc EXCEPT ![a] = Done("admin", None, "", 200, "validation", 0)]
       /\ UNCHANGED <<packages, limits>>
     ELSE
       /\ packages' = [packages EXCEPT ![package] = TRUE]
       /\ limits' = [limits EXCEPT ![package] =
                       [emailCredits |-> emailCredits,
                        concurrencyLimit |-> concurrencyLimit]]
       /\ proc' = [proc EXCEPT ![a] = Redirect("Package created successfully")]
  /\ UNCHANGED <<db, sess, now, nextTok, resetSeen, cacheVars>>

\* the answer of the middleware in front of routes/admin.js to a POST of
\* session a with _csrf field c: 403 of csrfProtection, the redirect of
\* isAuthenticated, 403 of isAdmin, or 200 when the handler is reached
AdminStatus(a, c) ==
  IF ~BrowserPasses(a, "POST", c) THEN 403
  ELSE IF SessionGone(a) \/ SessionSecurity(sess[a]).user.id = None THEN 302
  ELSE IF db[sess[a].user.id].role # "admin" THEN 403
  ELSE 200

\* a POST to an admin endpoint that does not reach its handler; the client
\* sends the token of its session or none
AdminDenied(a, c) ==
  /\ CanSend(a)
  /\ c \in {0, sess[a].csrfToken}
  /\ AdminStatus(a, c) # 200
  /\ sess' = [sess EXCEPT ![a] = BrowserSession(a, "POST", c)]
  /\ SidBound
  /\ proc' = [proc EXCEPT ![a] =
                Done("admin", None, "", AdminStatus(a, c),
                     IF ~BrowserPasses(a, "POST", c) THEN "csrf"
                     ELSE IF AdminStatus(a, c) = 302 THEN "/auth/login"
                     ELSE "Access Denied", 0)]
  /\ UNCHANGED <<db, now, nextTok, resetSeen, packages, limits, cacheVars>>

----------------------------------------------------------------------------
(* utils/cache.js: SimpleCache. cache[key] is the item of the cache map (gen *)
(* names the set call that stored it: the id of the timer that call         *)
(* created), timers[key] the entry of the timers map, queue the timeouts     *)
(* that setTimeout scheduled and that neither fired nor were cleared.        *)

\* mutant: set leaves the timer of the previous value running
ClearExisting_Skipped(key) == queue

\* "if (this.timers.has(key)) clearTimeout(this.timers.get(key))"
ClearExisting(key) ==
  IF timers[key] # NoTimer THEN {tm \in queue : tm.id # timers[key]} ELSE queue

\* mutant: get does not look at the expiry
Expired_Never(item) == FALSE

\* "Date.now() > item.expiry"
Expired(item) == clock > item.expiry

\* the value that get(key) returns; None is undefined
Get(key) ==
  IF cache[key] = NoItem THEN None
  ELSE IF Expired(cache[key]) THEN None
  ELSE cache[key].value

\* set(key, value, ttl)
CacheSet(key, value, ttl) ==
  /\ nextTimer <= MaxTimers
  /\ cache' = [cache EXCEPT ![key] =
                 [value |-> value, expiry |-> clock + ttl, gen |-> nextTimer]]
  /\ queue' = ClearExisting(key) \cup {[id |-> nextTimer, key |-> key, due |-> clock + ttl]}
  /\ timers' = [timers EXCEPT ![key] = nextTimer]
  /\ nextTimer' = nextTimer + 1
  /\ UNCHANGED <<db, sess, proc, now, nextTok, resetSeen, packages, limits, clock>>

\* delete(key): the effect on the cache map, the timers map and the timeouts
Deleted(key) ==
  /\ cache' = [cache EXCEPT ![key] = NoItem]
  /\ timers' = [timers EXCEPT ![key] = NoTimer]
  /\ queue' = {tm \in queue : tm.id # timers[key]}

\* delete(key), called from outside
CacheDelete(key) ==
  /\ Deleted(key)
  /\ UNCHANGED <<db, sess, proc, now, nextTok, resetSeen, packages, limits, clock,
                 nextTimer>>

\* get(key): an expired item is deleted on the way
CacheGet(key) ==
  /\ IF cache[key] # NoItem /\ Expired(cache[key]) THEN Deleted(key)
     ELSE UNCHANGED <<cache, timers, queue>>
  /\ UNCHANGED <<db, sess, proc, now, nextTok, resetSeen, packages, limits, clock,
                 nextTimer>>

\* clear()
CacheClear ==
  /\ cache' = [key \in Keys |-> NoItem]
  /\ timers' = [key \in Keys |-> NoTimer]
  /\ queue' = {tm \in queue : \A key \in Keys : tm.id # timers[key]}
  /\ UNCHANGED <<db, sess, proc, now, nextTok, resetSeen, packages, limits, clock,
                 nextTimer>>

\* the callback of a timeout that is due: "this.delete(key)"; the event loop
\* may run it late
TimerFires(tm) ==
  /\ tm \in queue
  /\ clock >= tm.due
  /\ cache' = [cache EXCEPT ![tm.key] = NoItem]
  /\ timers' = [timers EXCEPT ![tm.key] = NoTimer]
  /\ queue' = {o \in queue : o.id # tm.id /\ o.id # timers[tm.key]}
  /\ UNCHANGED <<db, sess, proc, now, nextTok, resetSeen, packages, limits, clock,
                 nextTimer>>

\* Date.now() advances
ClockTick ==
  /\ clock < MaxClock
  /\ clock' = clock + 1
  /\ UNCHANGED <<db, sess, proc, now, nextTok, resetSeen, packages, limits, cache,
                 timers, queue, nextTimer>>

----------------------------------------------------------------------------
\* time passes
Tick ==
  /\ now < MaxTime
  /\ now' = now + 1
  /\ UNCHANGED <<db, sess, proc, nextTok, resetSeen, packages, limits, cacheVars>>

\* the desktop clients, the device binding, and an administrator who resets
\* devices, activates, deactivates and deletes the account
Next ==
  \/ \E s \in Sessions, username \in Usernames, password \in Passwords,
        device_id \in DeviceInputs : ApiLoginFind(s, username, password, device_id)
  \/ \E p \in Sessions : ApiLoginBind(p)
  \/ \E p \in Sessions : ApiLoginIssue(p)
  \/ \E s \in Sessions, t \in 0..MaxTokens : VerifyToken(s, t)
  \/ \E s \in Sessions, t \in 0..MaxTokens : ApiLogout(s, t)
  \/ \E a \in Sessions, u \in Targets : ResetDevice(a, u)
  \/ \E a \in Sessions, u \in Targets, flag \in BOOLEAN : BulkSetActive(a, {u}, flag)
  \/ \E a \in Sessions, u \in Targets : DeleteUser(a, u)
  \/ Tick

Spec == Init /\ [][Next]_vars

\* the browser and the desktop login paths of one client (session s1), and an
\* administrator (session s2) who edits, activates and deactivates the account
NextAuth ==
  \/ \E username \in Usernames, password \in Passwords :
        ApiLoginFind("s1", username, password, "dev-1")
  \/ \E p \in Sessions : ApiLoginBind(p)
  \/ \E p \in Sessions : ApiLoginIssue(p)
  \/ \E t \in 0..MaxTokens : VerifyToken("s1", t)
  \/ \E email \in Usernames, password \in Passwords : WebLoginFind("s1", email, password)
  \/ \E p \in Sessions, err \in BOOLEAN : WebLoginFinish(p, err)
  \/ WebLogout("s1")
  \/ PageRequest("s1")
  \/ \E a \in Sessions, u \in Targets, flag \in BOOLEAN : BulkSetActive(a, {u}, flag)
  \/ \E a \in Sessions, u \in Targets, role \in Roles, e \in EndDates, f \in BOOLEAN :
        EditUser(a, u, role, e, f)
  \/ Tick

SpecAuth == Init /\ [][NextAuth]_vars

\* the browser sessions of a user (client s1) and of the administrator (client
\* s2): pages, login, logout, forged posts, session ageing, a desktop request
\* sent with the browser's session, and the changes of the account that
\* loadUser reacts to
NextWeb ==
  \/ \E s \in Sessions : PageRequest(s)
  \/ \E email \in Usernames, password \in PasswordInputs :
        WebLoginFind("s1", email, password)
  \/ \E p \in Sessions, err \in BOOLEAN : WebLoginFinish(p, err)
  \/ \E s \in Sessions : WebLogout(s)
  \/ \E s \in Sessions : GetLogout(s)
  \/ \E s \in Sessions, c \in CsrfInputs : ForgedPost(s, c)
  \/ \E s \in Sessions : SessionAges(s)
  \/ \E s \in Sessions : RegenerateAborts(s)
  \/ \E s \in Sessions, t \in 0..MaxTokens : VerifyToken(s, t)
  \/ \E a \in Sessions, u \in Targets, flag \in BOOLEAN : BulkSetActive(a, {u}, flag)
  \/ \E a \in Sessions, u \in Targets : DeleteUser(a, u)
  \/ Tick

SpecWeb == Init /\ [][NextWeb]_vars

\* two desktop clients logging in, with no other request in between
NextRace ==
  \/ \E s \in Sessions, username \in Usernames, password \in Passwords,
        device_id \in DeviceInputs : ApiLoginFind(s, username, password, device_id)
  \/ \E p \in Sessions : ApiLoginBind(p)
  \/ \E p \in Sessions : ApiLoginIssue(p)

SpecRace == Init /\ [][NextRace]_vars

\* the password field of the edit form; "" is a field left empty
NewPasswords == {"", "newpw"}

\* the administrators: a second browser client (s1) that logs in as alice,
\* role changes, single and bulk deletes, and requests that are turned away
NextAdmin ==
  \/ PageRequest("s1")
  \/ WebLoginFind("s1", "alice", "correctpw")
  \/ \E p \in Sessions : WebLoginFinish(p, FALSE)
  \/ \E a \in Sessions, u \in Users, role \in Roles :
        EditUserForm(a, u, role, "basic", 1, TRUE, "")
  \/ \E a \in Sessions, u \in Users : DeleteUserFind(a, u)
  \/ \E a \in Sessions : DeleteUserCount(a)
  \/ \E a \in Sessions : DeleteUserCommit(a)
  \/ \E a \in Sessions, userIds \in SUBSET Users : BulkDeleteFind(a, userIds)
  \/ \E a \in Sessions : BulkDeleteCount(a)
  \/ \E a \in Sessions : BulkDeleteCommit(a)
  \/ \E a \in Sessions, flag \in BOOLEAN : BulkSetActive(a, {"alice"}, flag)
  \/ \E a \in Sessions, c \in CsrfInputs : AdminDenied(a, c)

SpecAdmin == Init /\ [][NextAdmin]_vars

\* the packages: two administrators (root, and alice once she is promoted)
\* who delete packages and assign them in the edit form
NextPackages ==
  \/ PageRequest("s1")
  \/ WebLoginFind("s1", "alice", "correctpw")
  \/ \E p \in Sessions : WebLoginFinish(p, FALSE)
  \/ \E a \in Sessions, role \in Roles, package \in Packages :
        EditUserForm(a, "alice", role, package, 1, TRUE, "")
  \/ \E a \in Sessions, package \in Packages : DeletePackageCount(a, package)
  \/ \E a \in Sessions : DeletePackageCommit(a)

SpecPackages == Init /\ [][NextPackages]_vars

\* one desktop client whose logins are accepted or turned away for each of
\* the handler's reasons, while the administrator activates and deactivates
\* the account and its package runs out
NextLogin ==
  \/ \E username \in Usernames, password \in Passwords, device_id \in DeviceInputs :
        ApiLoginFind("s1", username, password, device_id)
  \/ \E p \in Sessions : ApiLoginBind(p)
  \/ \E p \in Sessions : ApiLoginIssue(p)
  \/ \E a \in Sessions, flag \in BOOLEAN : BulkSetActive(a, {"alice"}, flag)
  \/ \E a \in Sessions : ResetDevice(a, "alice")
  \/ Tick

SpecLogin == Init /\ [][NextLogin]_vars

\* the saves of one account: desktop and browser logins (binding, lastLogin),
\* the device reset, and the edit form with and without a new password
NextPassword ==
  \/ \E password \in (Passwords \cup NewPasswords) \ {""} :
        ApiLoginFind("s1", "alice", password, "dev-1")
  \/ \E p \in Sessions : ApiLoginBind(p)
  \/ \E p \in Sessions : ApiLoginIssue(p)
  \/ PageRequest("s1")
  \/ \E password \in Passwords \cup NewPasswords : WebLoginFind("s1", "alice", password)
  \/ \E p \in Sessions : WebLoginFinish(p, FALSE)
  \/ \E a \in Sessions : ResetDevice(a, "alice")
  \/ \E a \in Sessions, role \in Roles, password \in NewPasswords :
        EditUserForm(a, "alice", role, "basic", 1, TRUE, password)

SpecPassword == Init /\ [][NextPassword]_vars

\* POST /auth/api/login of alice, sent while no other login is in flight
LoginAlone(s, password, device_id) ==
  InFlightApi = 0 /\ ApiLoginFind(s, "alice", password, device_id)

\* POST /auth/api/verify-token, sent while no login is in flight
VerifyAlone(s, t) == InFlightApi = 0 /\ VerifyToken(s, t)

\* POST /admin/users/reset-device/:id, sent while no login is in flight
ResetAlone(a, u) == InFlightApi = 0 /\ ResetDevice(a, u)

\* the desktop clients and the administrator with one request at a time
NextOneAtATime ==
  \/ \E s \in Sessions, password \in Passwords, device_id \in Devices :
        LoginAlone(s, password, device_id)
  \/ \E p \in Sessions : ApiLoginBind(p)
  \/ \E p \in Sessions : ApiLoginIssue(p)
  \/ \E s \in Sessions, t \in TokenIds : VerifyAlone(s, t)
  \/ \E a \in Sessions : ResetAlone(a, "alice")

SpecOneAtATime == Init /\ [][NextOneAtATime]_vars

\* the desktop clients of one account and an administrator who resets its
\* device: logins, token verification and logout, with the account entitled
\* throughout
NextDesktop ==
  \/ \E s \in Sessions, username \in Usernames, password \in Passwords,
        device_id \in DeviceInputs : ApiLoginFind(s, username, password, device_id)
  \/ \E p \in Sessions : ApiLoginBind(p)
  \/ \E p \in Sessions : ApiLoginIssue(p)
  \/ \E s \in Sessions, t \in 0..MaxTokens : VerifyToken(s, t)
  \/ \E s \in Sessions, t \in 0..MaxTokens : ApiLogout(s, t)
  \/ \E a \in Sessions, u \in Targets : ResetDevice(a, u)
  \/ \E p \in Sessions : ApiLoginSaveFails(p)

SpecDesktop == Init /\ [][NextDesktop]_vars

\* one client that uses the browser and the desktop endpoints with the same
\* cookie, a second client that presents the first one's tokens, and the
\* administrator who deactivates and reactivates the account
NextTokens ==
  \/ \E device_id \in Devices : ApiLoginFind("s1", "alice", "correctpw", device_id)
  \/ \E p \in Sessions : ApiLoginBind(p)
  \/ \E p \in Sessions : ApiLoginIssue(p)
  \/ \E s \in Sessions, t \in TokenIds : VerifyToken(s, t)
  \/ \E s \in Sessions, t \in TokenIds : ApiLogout(s, t)
  \/ PageRequest("s1")
  \/ WebLoginFind("s1", "alice", "correctpw")
  \/ \E p \in Sessions : WebLoginFinish(p, FALSE)
  \/ WebLogout("s1")
  \/ SessionAges("s1")
  \/ \E a \in Sessions, flag \in BOOLEAN : BulkSetActive(a, {"alice"}, flag)
  \/ \E a \in Sessions : ResetDevice(a, "alice")
  \/ Tick

SpecTokens == Init /\ [][NextTokens]_vars

\* the URLs behind isAuthenticated that a browser asks for
Urls == {"/dashboard", "/admin/users"}

\* a browser that is sent to the login page from a protected URL, opens the
\* login page or not, logs in and out, while the administrator activates and
\* deactivates the account
NextReturn ==
  \/ PageRequest("s1")
  \/ \E url \in Urls : ProtectedRequest("s1", url)
  \/ LoginPage("s1")
  \/ \E email \in Usernames, password \in Passwords : WebLoginFind("s1", email, password)
  \/ \E p \in Sessions, err \in BOOLEAN : WebLoginFinish(p, err)
  \/ WebLogout("s1")
  \/ \E a \in Sessions, flag \in BOOLEAN : BulkSetActive(a, {"alice"}, flag)

SpecReturn == Init /\ [][NextReturn]_vars

\* the end dates that the administrator enters when a package is renewed
RenewalDates == {1, MaxTime + 1}

\* the dashboard of a logged-in user while the package runs out and the
\* administrator renews it, deactivates or deletes the account
NextDashboard ==
  \/ PageRequest("s1")
  \/ WebLoginFind("s1", "alice", "correctpw")
  \/ \E p \in Sessions : WebLoginFinish(p, FALSE)
  \/ \E s \in Sessions : DashboardLoad(s)
  \/ \E s \in Sessions : DashboardCheck(s)
  \/ \E a \in Sessions, flag \in BOOLEAN : BulkSetActive(a, {"alice"}, flag)
  \/ \E a \in Sessions, e \in RenewalDates : EditUser(a, "alice", "user", e, TRUE)
  \/ \E a \in Sessions : DeleteUser(a, "alice")
  \/ Tick

SpecDashboard == Init /\ [][NextDashboard]_vars

\* the administrators who deactivate, reactivate and edit any account, their
\* own included, and the browser of the second account
NextLockout ==
  \/ PageRequest("s1")
  \/ WebLoginFind("s1", "alice", "correctpw")
  \/ \E p \in Sessions : WebLoginFinish(p, FALSE)
  \/ \E a \in Sessions, userIds \in SUBSET Users, flag \in BOOLEAN :
        BulkSetActive(a, userIds, flag)
  \/ \E a \in Sessions, u \in Users, role \in Roles, isActive \in BOOLEAN :
        EditUserForm(a, u, role, "basic", 1, isActive, "")

SpecLockout == Init /\ [][NextLockout]_vars

\* the packages and their limits: packages are created, edited and deleted
\* while the edit form of the account assigns them
NextLimits ==
  \/ \E a \in Sessions, role \in Roles, package \in Packages :
        EditUserForm(a, "alice", role, package, 1, TRUE, "")
  \/ \E a \in Sessions, package \in Packages : DeletePackageCount(a, package)
  \/ \E a \in Sessions : DeletePackageCommit(a)
  \/ \E a \in Sessions, package \in Packages, emailCredits \in CreditInputs,
        concurrencyLimit \in LimitInputs :
        EditPackage(a, package, emailCredits, concurrencyLimit)
  \/ \E a \in Sessions, package \in Packages, emailCredits \in CreditInputs,
        concurrencyLimit \in LimitInputs :
        CreatePackage(a, package, emailCredits, concurrencyLimit)

SpecLimits == Init /\ [][NextLimits]_vars

\* the timeouts that setTimeout may have handed out
Timeouts == [id : 1..MaxTimers, key : Keys, due : 0..(MaxClock + 2)]

\* the callers of the cache, its timeouts and the clock
NextCache ==
  \/ \E key \in Keys, value \in Values, ttl \in Ttls : CacheSet(key, value, ttl)
  \/ \E key \in Keys : CacheGet(key)
  \/ \E key \in Keys : CacheDelete(key)
  \/ CacheClear
  \/ \E tm \in Timeouts : TimerFires(tm)
  \/ ClockTick

SpecCache == Init /\ [][NextCache]_vars

\* the usernames and emails that the administrators type into the forms
Names == {"alice", "carol"}

\* two administrators (root, and alice once she is promoted and logged in)
\* who create accounts and change usernames and emails at the same time,
\* and delete the second account
NextNames ==
  \/ PageRequest("s1")
  \/ WebLoginFind("s1", "alice", "correctpw")
  \/ \E p \in Sessions : WebLoginFinish(p, FALSE)
  \/ \E a \in Sessions : EditUserForm(a, "alice", "admin", "basic", 1, TRUE, "")
  \/ \E a \in Sessions : DeleteUser(a, "alice")
  \/ \E a \in Sessions, username \in Names, email \in Names :
        CreateUserCheck(a, username, email, "basic")
  \/ \E a \in Sessions, u \in Users : CreateUserSave(a, u, 1, "correctpw")
  \/ \E a \in Sessions, u \in Users, username \in Names, email \in Names :
        EditNamesCheck(a, u, username, email)
  \/ \E a \in Sessions : EditNamesSave(a)

SpecNames == Init /\ [][NextNames]_vars

----------------------------------------------------------------------------
(* Properties *)

\* the account is entitled: active, and admin or inside its package window
Entitled(u) == db[u].exists /\ db[u].isActive /\ (isAdmin(db[u]) \/ isPackageValid(db[u]))

\* every token record stored in some session
AllTokens == UNION {sess[s].desktopTokens : s \in Sessions}

\* a desktop login of client p that ended with a token
Succeeded(p) ==
  proc[p].pc = "done" /\ proc[p].kind = "api" /\ proc[p].status = 200 /\ proc[p].token # 0

\* client p's desktop login takes a step from pc
ApiStepFrom(p, pc) ==
  proc[p].pc = pc /\ proc[p].kind = "api" /\ proc'[p] # proc[p]

\* C1: verify-token answers 200 exactly when the token is in the table, the owning
\* account exists and is entitled, and the account's bound device equals the
\* device recorded on the token.
C1_VerifyAcceptsExactlyValidTokens ==
  \A s \in Sessions, t \in TokenIds :
    (VerifyStatus(s, t) = 200) <=>
      /\ HasToken(s, t)
      /\ Entitled(TokenData(s, t).userId)
      /\ db[TokenData(s, t).userId].registeredDeviceId = TokenData(s, t).deviceId

\* C2: two desktop logins of one account with different device ids never both
\* end with a token (no device reset happens in SpecRace).
C2_NeverBothReceiveToken ==
  \A p, q \in Sessions :
    (Succeeded(p) /\ Succeeded(q) /\ proc[p].uid = proc[q].uid) => proc[p].dev = proc[q].dev

\* C3 as stated: a token whose device differs from the account's bound device is
\* answered 401 by every verify-token.
C3_SupersededTokenGets401 ==
  \A s \in Sessions, r \in AllTokens :
    (db[r.userId].registeredDeviceId \notin {None, r.deviceId}) => VerifyStatus(s, r.token) = 401

\* C3 amended: such a token is never accepted; the answer is 401 while the account
\* is entitled, 403 when it is deactivated or expired and the token is in the
\* presenting session, 500 when loadUser destroyed the presenting session.
C3_SupersededTokenRejected ==
  \A s \in Sessions, r \in AllTokens :
    (db[r.userId].registeredDeviceId \notin {None, r.deviceId}) =>
      /\ VerifyStatus(s, r.token) \in {401, 403, 500}
      /\ (VerifyStatus(s, r.token) = 500) <=> SessionGone(s)
      /\ (VerifyStatus(s, r.token) = 403) <=>
           (~SessionGone(s) /\ r \in sess[s].desktopTokens /\ ~Entitled(r.userId))

\* tokens of two devices are stored, the account is bound to the later device
C3_Witness ==
  \E r1, r2 \in AllTokens :
    /\ r1.userId = r2.userId /\ r1.token < r2.token
    /\ r1.deviceId # r2.deviceId
    /\ db[r1.userId].registeredDeviceId = r2.deviceId
    /\ Entitled(r1.userId)

C5_MismatchRejectedWithoutEffect ==
  [][\A p \in Sessions :
       /\ (/\ CanSend(p) /\ proc'[p] # proc[p] /\ proc'[p].kind = "api"
           /\ proc'[p].uid # None
           /\ db[proc'[p].uid].registeredDeviceId \notin {None, proc'[p].dev})
          => /\ proc'[p].pc = "done" => (proc'[p].status = 403 /\ proc'[p].token = 0)
             /\ proc'[p].pc # "done" =>
                  proc'[p].user.registeredDeviceId = db[proc'[p].uid].registeredDeviceId
             /\ db' = db /\ nextTok' = nextTok
             /\ \A s \in Sessions : sess'[s].desktopTokens = sess[s].desktopTokens
       /\ (/\ ApiStepFrom(p, "found")
           /\ proc[p].isMatch
           /\ proc[p].user.registeredDeviceId \notin {None, proc[p].dev})
          => /\ proc'[p].pc = "done" /\ proc'[p].status = 403 /\ proc'[p].token = 0
             /\ db' = db /\ sess' = sess /\ nextTok' = nextTok]_vars

\* a login was refused for its device while the account is bound to another one
C5_Witness ==
  \E p \in Sessions :
    /\ proc[p].pc = "done" /\ proc[p].kind = "api"
    /\ proc[p].status = 403 /\ proc[p].msg = "device"
    /\ db[proc[p].uid].registeredDeviceId \notin {None, proc[p].dev}

\* C6: a desktop login with the right password that read the entitled account
\* unbound saves its device id d as the bound device, and then ends with 200
\* and a token for d.
C6_FirstClaimBinds ==
  [][\A p \in Sessions :
       /\ (/\ ApiStepFrom(p, "found") /\ proc[p].isMatch
           /\ proc[p].user.registeredDeviceId = None /\ db[proc[p].uid].exists)
          => (proc'[p].pc = "bound" /\ db'[proc[p].uid].registeredDeviceId = proc[p].dev)
       /\ (ApiStepFrom(p, "bound") /\ db[proc[p].uid].exists /\ ~proc[p].gone)
          => /\ Succeeded(p)'
             /\ [token |-> proc'[p].token, userId |-> proc[p].uid, deviceId |-> proc[p].dev]
                  \in sess'[p].desktopTokens
             /\ db'[proc[p].uid].registeredDeviceId = db[proc[p].uid].registeredDeviceId]_vars

\* a first login succeeded and the account is bound to its device
C6_Witness ==
  \E p \in Sessions :
    /\ Succeeded(p) /\ proc[p].token = 1
    /\ db[proc[p].uid].registeredDeviceId = proc[p].dev

\* C7: a desktop login with the right password that read the account bound to
\* its own device succeeds and leaves the bound device as it is.
C7_RebindIsIdempotent ==
  [][\A p \in Sessions :
       (/\ ApiStepFrom(p, "found") /\ proc[p].isMatch
        /\ proc[p].user.registeredDeviceId = proc[p].dev)
       => /\ db'[proc[p].uid].registeredDeviceId = db[proc[p].uid].registeredDeviceId
          /\ (db[proc[p].uid].exists /\ ~proc[p].gone) => Succeeded(p)']_vars

\* two logins of one account with one device have both succeeded
C7_Witness ==
  \E r1, r2 \in AllTokens :
    /\ r1.token # r2.token /\ r1.userId = r2.userId /\ r1.deviceId = r2.deviceId
    /\ db[r1.userId].registeredDeviceId = r1.deviceId

\* C8: a bound device stays as it is until a device reset clears it; no step
\* replaces it by another device.
C8_BindingMonotonic ==
  [][\A u \in Users :
       (db[u].registeredDeviceId # None /\ db'[u].exists)
       => db'[u].registeredDeviceId \in {db[u].registeredDeviceId, None}]_vars

\* C9: a device reset leaves the account unbound, and after a reset a login with
\* the right password that read the account unbound passes the device check
\* and binds the (still existing) account to its own device id, whatever that
\* id is.
C9_ResetReopensFirstClaim ==
  /\ [](\A u \in Users : resetSeen[u] => db[u].registeredDeviceId = None)
  /\ [][\A p \in Sessions :
          (/\ ApiStepFrom(p, "found") /\ proc[p].isMatch
           /\ resetSeen[proc[p].uid] /\ proc[p].user.registeredDeviceId = None
           /\ db[proc[p].uid].exists)
          => /\ proc'[p].pc = "bound"
             /\ db'[proc[p].uid].registeredDeviceId = proc[p].dev]_vars

\* after a reset of an account that had a token for one device, a login with
\* another device has read the unbound account
C9_Witness ==
  \E p \in Sessions, r \in AllTokens :
    /\ proc[p].pc = "found" /\ proc[p].kind = "api" /\ proc[p].isMatch
    /\ proc[p].user.registeredDeviceId = None
    /\ resetSeen[proc[p].uid]
    /\ r.userId = proc[p].uid /\ r.deviceId # proc[p].dev

\* a browser login of client p that ended with the redirect
WebSucceeded(p) ==
  proc[p].pc = "done" /\ proc[p].kind = "web" /\ proc[p].status = 302

C11_EntitledThroughEndDate ==
  \A u \in Users :
    (db[u].exists /\ db[u].isActive /\ ~isAdmin(db[u]) /\ db[u].packageEndDate # NoDate)
      => (isPackageValid(db[u]) <=> now <= db[u].packageEndDate)

\* an existing, active account with the admin role
ActiveAdmin(u) == db[u].exists /\ db[u].isActive /\ db[u].role = "admin"

\* C12: an active admin-role account passes the package check whatever its end
\* date is: loadUser keeps its session, verify-token gets past the package
\* check for its tokens, and a login (browser or desktop) that reads it goes
\* on to the password comparison and is never answered "expired".
C12_AdminBypassesPackageCheck ==
  /\ [](\A s \in Sessions :
          /\ (sess[s].user.id # None /\ ActiveAdmin(sess[s].user.id)) => LoadUserKeeps(s)
          /\ \A r \in sess[s].desktopTokens :
               (ActiveAdmin(r.userId) /\ ~SessionGone(s) /\ ~Regenerates(s))
                 => (VerifyReachesDeviceCheck(s, r.token) /\ VerifyStatus(s, r.token) # 403))
  /\ [][\A p \in Sessions :
          (/\ CanSend(p) /\ proc'[p] # proc[p] /\ proc'[p].uid # None
           /\ ActiveAdmin(proc'[p].uid))
          => proc'[p].pc = "found"]_vars

\* a login has read an active admin-role account whose end date lies in the
\* past, in a session that carries the account's identity and one of its tokens
C12_Witness ==
  \E p \in Sessions :
    /\ proc[p].pc = "found" /\ proc[p].user.role = "admin"
    /\ ActiveAdmin(proc[p].uid)
    /\ db[proc[p].uid].packageEndDate = 0 /\ now = 1
    /\ sess[p].user.id = proc[p].uid
    /\ \E r \in sess[p].desktopTokens : r.userId = proc[p].uid

\* the rejection a desktop login must report by the documented priority:
\* unknown account or bad credential, then deactivated, then expired
FirstReason(username, password) ==
  LET uid == FindByUsername(username) IN
    IF uid = None THEN <<401, "Invalid username or password">>
    ELSE IF ~comparePassword(db[uid], password) THEN <<401, "Invalid username or password">>
    ELSE IF ~db[uid].isActive THEN <<403, "deactivated">>
    ELSE <<403, "expired">>

\* C13: a desktop login that is rejected reports the earliest applicable reason
\* of the order 401 (unknown account or bad credential), 403 deactivated, 403
\* expired, 403 device mismatch; a wrong password on a deactivated or expired
\* account yields the generic 401.
C13_RejectionPriority ==
  [][\A p \in Sessions :
       /\ \A username \in Usernames, password \in Passwords, device_id \in Devices :
            (ApiLoginFind(p, username, password, device_id) /\ proc'[p].pc = "done")
              => <<proc'[p].status, proc'[p].msg>> = FirstReason(username, password)
       /\ (ApiStepFrom(p, "found") /\ ~proc[p].isMatch)
            => (proc'[p].status = 401 /\ proc'[p].msg = "Invalid username or password")
       /\ (ApiStepFrom(p, "found") /\ proc[p].isMatch /\ proc'[p].pc = "done"
           /\ proc'[p].status = 403)
            => (proc'[p].msg = "device" /\ DeviceMismatch(proc[p].user, proc[p].dev))]_vars

\* the response of a login for an identifier that names no account
UnknownAccountResponse(kind) ==
  IF kind = "api" THEN <<401, "Invalid username or password">>
  ELSE <<200, "Invalid email or password">>

\* password is not the password of the account that identifier names
WrongPassword(identifier, password) ==
  identifier \in Users /\ db[identifier].exists
    /\ ~comparePassword(db[identifier], password)

\* C14: a login (desktop or browser) with a wrong password is answered exactly
\* as a login for an unknown account, whatever the activation and package
\* state of the existing account.
C14_NoAccountEnumeration ==
  [][\A p \in Sessions :
       /\ \A identifier \in Usernames, password \in Passwords, device_id \in Devices :
            (/\ WrongPassword(identifier, password)
             /\ \/ ApiLoginFind(p, identifier, password, device_id)
                \/ WebLoginFind(p, identifier, password)
             /\ proc'[p].pc = "done")
            => <<proc'[p].status, proc'[p].msg>> = UnknownAccountResponse(proc'[p].kind)
       /\ (proc[p].pc = "found" /\ ~proc[p].isMatch /\ proc'[p] # proc[p])
            => <<proc'[p].status, proc'[p].msg>> = UnknownAccountResponse(proc[p].kind)]_vars

\* client p's browser login takes its last step and ends with the redirect
WebLoginSucceeds(p) ==
  proc[p].pc = "found" /\ proc[p].kind = "web" /\ WebSucceeded(p)'

C16_PeriodicRegenerationKeepsLogin ==
  [][\A s \in Sessions :
       (/\ Regenerates(s)
        /\ \/ PageRequest(s)
           \/ RegenerateAborts(s)
           \/ \E c \in CsrfInputs : ForgedPost(s, c))
       => /\ sess'[s].user = sess[s].user
          /\ sess'[s].csrfToken = sess[s].csrfToken
          /\ sess'[s].sid > sess[s].sid
          /\ ~sess'[s].old]_vars

\* C17: a browser logout (POST or GET) removes the session from the store: the
\* client is left with a later identifier and no identity, and since no step
\* ever brings an earlier identifier back, the identifier that was logged out
\* resolves to no session, authenticated or not, in any later request.
C17_LoggedOutIdentifierStaysDead ==
  /\ [][\A s \in Sessions :
          (WebLogout(s) \/ GetLogout(s)) =>
            /\ sess'[s].sid > sess[s].sid
            /\ sess'[s].user = NoIdentity
            /\ sess'[s].desktopTokens = {}]_vars
  /\ [][\A s \in Sessions :
          /\ sess'[s].sid >= sess[s].sid
          /\ (sess'[s].sid = sess[s].sid /\ sess[s].user.id = None)
               => sess'[s].user.id = None]_vars

\* the client that logged in to the still entitled account has logged out:
\* it is, two identifiers later, without identity
C17_Witness ==
  \E p \in Sessions, u \in Targets :
    /\ proc[p].pc = "done" /\ proc[p].kind = "logout"
    /\ db[u].lastLogin # NoDate /\ Entitled(u)
    /\ sess[p].user = NoIdentity /\ sess[p].csrfToken = 0
    /\ sess[p].sid = 3

\* the session of client s carries the identity of an account that has been
\* deleted, deactivated or (standard account) has expired
StaleIdentity(s) == sess[s].user.id # None /\ ~Entitled(sess[s].user.id)

\* client s sends a request that csrfProtection lets through: a GET, a POST
\* with the session's token, or a request under /auth/api/
ValidatedRequest(s) ==
  \/ PageRequest(s)
  \/ \E t \in 0..MaxTokens : VerifyToken(s, t)
  \/ \E email \in Usernames, password \in PasswordInputs :
        WebLoginFind(s, email, password)
  \/ WebLogout(s)
  \/ GetLogout(s)

\* C18 as stated: every request with a session whose account has been deleted,
\* deactivated or has expired destroys that session during the request.
C18_EveryRequestDestroysStaleSession ==
  [][\A s \in Sessions :
       (StaleIdentity(s) /\ (ValidatedRequest(s) \/ \E c \in CsrfInputs : ForgedPost(s, c)))
       => (sess'[s].user = NoIdentity /\ sess'[s].sid > sess[s].sid)]_vars

\* C18 amended: every request that gets past csrfProtection re-reads the account
\* and destroys such a session during the request; a POST without the session's
\* anti-forgery token is answered 403 before loadUser runs, changes no account
\* and leaves the session to the next request; no such session reaches an
\* admin handler, and its login attempt ends without an identity.
C18_ValidatedRequestDestroysStaleSession ==
  /\ [][\A s \in Sessions :
          /\ (StaleIdentity(s) /\ ValidatedRequest(s))
               => (sess'[s].user = NoIdentity /\ sess'[s].sid > sess[s].sid)
          /\ (StaleIdentity(s) /\ \E c \in CsrfInputs : ForgedPost(s, c))
               => (proc'[s].status = 403 /\ db' = db)]_vars
  /\ [](\A s \in Sessions : StaleIdentity(s) => ~AdminGate(s))

\* the client logged in, its account was then deactivated, and its next login
\* request was refused and left it with a new session without identity
C18_Witness ==
  \E p \in Sessions :
    /\ proc[p].pc = "done" /\ proc[p].kind = "web" /\ proc[p].msg = "deactivated"
    /\ db[proc[p].uid].lastLogin # NoDate /\ ~db[proc[p].uid].isActive
    /\ sess[p].user = NoIdentity /\ sess[p].csrfToken = 0
    /\ sess[p].sid = 3

\* C19: an identity payload enters a session only in the last step of a
\* browser login that read the account as existing and entitled and whose
\* password matched, and it is the identity of that account; a login attempt
\* that fails (validation error, unknown account, wrong password, deactivated,
\* expired, save or regeneration error) stores no identity in any session.
C19_IdentityOnlyAfterChecks ==
  /\ [][\A s \in Sessions :
          (sess'[s].user # sess[s].user /\ sess'[s].user.id # None)
          => /\ proc[s].pc = "found" /\ proc[s].kind = "web"
             /\ proc[s].isMatch /\ proc[s].user.isActive
             /\ WebSucceeded(s)'
             /\ sess'[s].user.id = proc[s].uid]_vars
  /\ [][\A p \in Sessions :
          (proc'[p] # proc[p] /\ proc'[p].pc = "found")
          => /\ Entitled(proc'[p].uid)
             /\ proc'[p].isMatch <=>
                  \E email \in Usernames :
                    WebLoginFind(p, email, "correctpw")
                      /\ db[proc'[p].uid].password = Hash("correctpw")]_vars
  /\ [][\A p \in Sessions :
          (/\ proc'[p] # proc[p] /\ proc'[p].pc = "done" /\ proc'[p].kind = "web"
           /\ proc'[p].status # 302)
          => \A s \in Sessions : sess'[s].user \in {sess[s].user, NoIdentity}]_vars

\* a browser login passed every check and saved lastLogin, the regeneration
\* failed, and the client's session holds no identity
C19_Witness ==
  \E p \in Sessions :
    /\ proc[p].pc = "done" /\ proc[p].kind = "web" /\ proc[p].msg = "error"
    /\ db[proc[p].uid].exists /\ db[proc[p].uid].lastLogin = now
    /\ sess[p].user = NoIdentity

\* client s sends a request outside /auth/api/ that asks for a change of
\* session or account state and does not carry the session's token: a POST
\* with a missing or wrong _csrf field, or the logout by GET
TokenlessMutation(s) ==
  \/ \E c \in CsrfInputs : ForgedPost(s, c)
  \/ GetLogout(s)

\* C20: a state-mutating browser request that does not carry the session's
\* anti-forgery token changes nothing: the accounts, the identity and the
\* tokens of the session and its identifier stay as they are, and a POST is
\* answered 403.
C20_MutationRequiresToken ==
  [][\A s \in Sessions :
       TokenlessMutation(s) =>
         /\ db' = db
         /\ sess'[s].user = sess[s].user
         /\ sess'[s].desktopTokens = sess[s].desktopTokens
         /\ sess'[s].sid = sess[s].sid
         /\ proc'[s].status = 403]_vars

----------------------------------------------------------------------------
(* Desktop logout, rejected logins, the end-to-end device scenario *)

C26_LoginAllOrNothing ==
  [][\A p \in Sessions :
       (ApiStepFrom(p, "bound") /\ proc'[p].pc = "done" /\ proc'[p].status # 200)
         => (db'[proc[p].uid].exists
               => db'[proc[p].uid].registeredDeviceId # proc[p].dev)]_vars

\* a desktop login of client p is turned away in this step
ApiRejected(p) ==
  /\ proc'[p] # proc[p]
  /\ proc'[p].pc = "done" /\ proc'[p].kind = "api"
  /\ proc'[p].status \in {400, 401, 403}

C28_DeviceHandover ==
  /\ [][\A p \in Sessions :
          (ApiStepFrom(p, "found") /\ proc[p].isMatch) =>
            IF db[proc[p].uid].registeredDeviceId = None
            THEN /\ proc'[p].pc = "bound"
                 /\ db'[proc[p].uid].registeredDeviceId = proc[p].dev
            ELSE IF db[proc[p].uid].registeredDeviceId # proc[p].dev
            THEN proc'[p].status = 403 /\ db' = db /\ sess' = sess
            ELSE Succeeded(p)']_vars
  /\ [][\A p \in Sessions :
          ApiStepFrom(p, "bound") =>
            /\ Succeeded(p)'
            /\ \E r \in sess'[p].desktopTokens :
                  r.token = proc'[p].token /\ r.deviceId = proc[p].dev
            /\ db'[proc[p].uid].registeredDeviceId = proc[p].dev]_vars
  /\ [](\A s \in Sessions : \A r \in sess[s].desktopTokens :
          db[r.userId].registeredDeviceId \notin {None, r.deviceId}
            => VerifyStatus(s, r.token) = 401)

\* the first client holds its dev-1 token, the second client has logged in
\* from dev-2, which the account is now bound to: the device was reset between
C28_Witness ==
  /\ Succeeded("s1") /\ proc["s1"].dev = "dev-1" /\ HasToken("s1", proc["s1"].token)
  /\ Succeeded("s2") /\ proc["s2"].dev = "dev-2" /\ proc["s2"].uid = proc["s1"].uid
  /\ db[proc["s1"].uid].registeredDeviceId = "dev-2"
  /\ VerifyStatus("s1", proc["s1"].token) = 401

\* the step is an edit of account u that carries a new password
PasswordEdit(u) ==
  \E a \in Sessions, role \in Roles, password \in NewPasswords \ {""} :
    EditUserForm(a, u, role, "basic", 1, TRUE, password)

\* C29: the stored password hash changes only in a save whose password field
\* was modified: the saves of the logins (binding, lastLogin), of the device
\* reset and of an edit with the password left empty keep the hash, and the
\* password that verified before verifies after; the stored value is always
\* the hash of a password that was entered.
C29_HashChangesOnlyWithPassword ==
  /\ [][\A u \in Users :
          (db[u].exists /\ db'[u].exists /\ ~PasswordEdit(u)) =>
            /\ db'[u].password = db[u].password
            /\ \A pw \in Passwords \cup NewPasswords :
                 comparePassword(db'[u], pw) <=> comparePassword(db[u], pw)]_vars
  /\ [](\A u \in Users :
          db[u].exists => \E pw \in (Passwords \cup NewPasswords) \ {""} :
                             db[u].password = Hash(pw))

\* alice has logged in on a device, her device was reset and her role edited
\* with the password field empty, and her first password still verifies
C29_Witness ==
  /\ db["alice"].lastLogin # NoDate
  /\ resetSeen["alice"]
  /\ db["alice"].role = "admin"
  /\ comparePassword(db["alice"], "correctpw")
  /\ Succeeded("s1")

\* C30: a bulk activate or deactivate changes the activation flag of the
\* selected accounts and nothing else: every session, token record and bound
\* device and every unselected account is as before; the flag is what the
\* next session load, login and token verification read.
C30_BulkActivationOnlySetsFlag ==
  /\ [][\A a \in Sessions, flag \in BOOLEAN :
          BulkSetActive(a, {"alice"}, flag) =>
            /\ sess' = sess
            /\ AllTokens' = AllTokens
            /\ db'["root"] = db["root"]
            /\ db'["alice"] = [db["alice"] EXCEPT !.isActive = flag]]_vars
  /\ [](\A u \in Users : (db[u].exists /\ ~db[u].isActive) =>
          /\ \A s \in Sessions : sess[s].user.id = u => ~LoadUserKeeps(s)
          /\ \A s \in Sessions : \A r \in sess[s].desktopTokens :
                r.userId = u => /\ VerifyStatus(s, r.token) # 200
                                 /\ ~VerifyReachesDeviceCheck(s, r.token))
  /\ [][\A p \in Sessions :
          (proc'[p] # proc[p] /\ proc'[p].pc = "found") => db[proc'[p].uid].isActive]_vars

\* alice was deactivated while she was logged in in the browser, bound to her
\* device and holding a token: all three are still there
C30_Witness ==
  /\ ~db["alice"].isActive
  /\ db["alice"].registeredDeviceId = "dev-1"
  /\ sess["s1"].user.id = "alice"
  /\ \E r \in sess["s1"].desktopTokens : r.userId = "alice"

----------------------------------------------------------------------------
(* The admin panel *)

\* C22: at least one account with the admin role exists in every reachable
\* state, whatever the administrators delete or edit and however their
\* requests interleave.
C22_AlwaysAnAdmin == AdminCount >= 1

\* the accounts that hold the admin role
Admins == {u \in Users : db[u].exists /\ db[u].role = "admin"}

\* the bulk delete of session a answers in this step
BulkDeleteAnswers(a) ==
  /\ proc[a].pc \in {"counting", "deleting"} /\ proc[a].kind = "admin"
  /\ proc[a].op = "bulk"
  /\ proc'[a].pc = "done"

\* C23: a bulk delete whose selected set contains every current admin account
\* is refused and deletes nothing; every other bulk delete deletes exactly the
\* selected accounts.
C23_BulkDeleteRefusesAllAdmins ==
  [][\A a \in Sessions :
       BulkDeleteAnswers(a) =>
         IF Admins # {} /\ Admins \subseteq proc[a].ids
         THEN db' = db
         ELSE db' = [u \in Users |-> IF u \in proc[a].ids THEN NoUser ELSE db[u]]]_vars

\* C24: a package that an account references is never deleted, and whatever
\* the interleaving of package deletions with the requests that assign
\* packages, no account references a deleted package.
C24_NoAccountReferencesDeletedPackage ==
  /\ [](\A u \in Users :
          (db[u].exists /\ db[u].package # None) => packages[db[u].package])
  /\ [][\A k \in Packages :
          (packages[k] /\ ~packages'[k]) => UsersWithPackage(k) = 0]_vars

\* the account behind session a has the admin role in the User collection
AdminNow(a) ==
  /\ sess[a].user.id # None
  /\ db[sess[a].user.id].exists
  /\ db[sess[a].user.id].role = "admin"

\* the answer of the middleware that turned the request of session a away
Denied(a) ==
  /\ proc[a].pc = "done" /\ proc[a].kind = "admin"
  /\ proc[a].msg \in {"csrf", "/auth/login", "Access Denied"}

\* an admin handler starts, or runs in one step with no await, only for a
\* session whose account has the admin role at that moment, and a request
\* that is turned away changes no account and no package
AdminOnlyForAdmins ==
  /\ [][\A a \in Sessions :
          (CanSend(a) /\ proc'[a] # proc[a] /\ proc'[a].kind = "admin" /\ ~Denied(a)')
            => AdminNow(a)]_vars
  /\ [][\A a \in Sessions, u \in Users, role \in Roles :
          EditUserForm(a, u, role, "basic", 1, TRUE, "") => AdminNow(a)]_vars
  /\ [][\A a \in Sessions, flag \in BOOLEAN :
          BulkSetActive(a, {"alice"}, flag) => AdminNow(a)]_vars
  /\ [][\A a \in Sessions :
          (proc'[a] # proc[a] /\ Denied(a)') =>
            (db' = db /\ packages' = packages)]_vars

\* C25 as stated: admin endpoints execute only for a session whose account has
\* the admin role, and every other request is answered 403 and mutates nothing.
C25_EveryOtherRequestGets403 ==
  /\ AdminOnlyForAdmins
  /\ [](\A a \in Sessions : Denied(a) => proc[a].status = 403)

\* C25, amended: admin endpoints execute only for a session whose account has
\* the admin role when the request passes isAdmin; a POST without the
\* session's anti-forgery token and a request of an authenticated non-admin
\* are answered 403, a request with no authenticated session (none, or one
\* that loadUser destroys) is redirected to /auth/login; none of them mutates.
C25_AdminOnlyAfterRoleCheck ==
  /\ AdminOnlyForAdmins
  /\ [](\A a \in Sessions : Denied(a) =>
          /\ proc[a].msg = "/auth/login" <=> proc[a].status = 302
          /\ proc[a].msg \in {"csrf", "Access Denied"} <=> proc[a].status = 403)
  /\ [](\A a \in Sessions, c \in CsrfInputs :
          /\ AdminStatus(a, c) = 200 => AdminNow(a)
          /\ AdminStatus(a, c) = 302 =>
                (sess[a].user.id = None \/ sess[a].old \/ ~LoadUserKeeps(a))
          /\ (BrowserPasses(a, "POST", c) /\ ~sess[a].old /\ LoadUserKeeps(a)
                /\ sess[a].user.id # None /\ ~AdminNow(a)) => AdminStatus(a, c) = 403)

\* an authenticated session of a non-admin account was answered 403 by
\* isAdmin, and a client with no identity was redirected
C25_Witness ==
  /\ Denied("s1") /\ proc["s1"].msg = "Access Denied" /\ proc["s1"].status = 403
  /\ sess["s1"].user.id = "alice" /\ db["alice"].role = "user"
  /\ Denied("s2") /\ proc["s2"].status = 302

----------------------------------------------------------------------------
(* Role changes and the cached session payload *)

\* the session of client a still says admin, the account no longer is one
StalePayload(a) ==
  /\ sess[a].user.id # None
  /\ sess[a].user.role = "admin"
  /\ db[sess[a].user.id].role # "admin"

\* a new request of session a enters a handler of routes/admin.js
AdminHandlerEntered(a) ==
  \/ \E u \in Users, role \in Roles : EditUserForm(a, u, role, "basic", 1, TRUE, "")
  \/ \E u \in Users : DeleteUserFind(a, u)
  \/ \E userIds \in SUBSET Users : BulkDeleteFind(a, userIds)
  \/ \E flag \in BOOLEAN : BulkSetActive(a, {"alice"}, flag)

\* C33: once an account was changed from admin to standard, no new request of
\* a session that was established while it was admin (its payload still says
\* admin) enters an admin handler: the request is answered 403 or redirected
C33_DemotionTakesEffectOnNextRequest ==
  /\ [](\A a \in Sessions :
          StalePayload(a) => AdminStatus(a, sess[a].csrfToken) \in {302, 403})
  /\ [][\A a \in Sessions :
          StalePayload(a) =>
            /\ ~AdminHandlerEntered(a)
            /\ (CanSend(a) /\ proc'[a] # proc[a] /\ proc'[a].kind = "admin")
                  => proc'[a].pc = "done" /\ proc'[a].status \in {302, 403}]_vars

\* alice was promoted, logged in, was demoted, and her next admin request
\* got the 403 page
C33_Witness ==
  /\ StalePayload("s1")
  /\ sess["s1"].user.id = "alice"
  /\ proc["s1"].pc = "done" /\ proc["s1"].kind = "admin"
  /\ proc["s1"].status = 403 /\ proc["s1"].msg = "Access Denied"

----------------------------------------------------------------------------
(* The answers of verify-token *)

\* the answer that the documented order of checks gives to token t presented
\* in session s: 400, 401, 403, 401, and 0 where the order says nothing
VerifyOrder(s, t) ==
  IF t = 0 THEN 400
  ELSE IF ~HasToken(s, t) THEN 401
  ELSE LET tokenData == TokenData(s, t)
           user == db[tokenData.userId] IN
    IF ~user.exists THEN 401
    ELSE IF ~Entitled(tokenData.userId) THEN 403
    ELSE IF user.registeredDeviceId # tokenData.deviceId THEN 401
    ELSE 0

\* C34: verify-token answers in the fixed order of its checks: 400 without a
\* token, 401 for a token that is not in the table or whose account is gone,
\* 403 for a deactivated or expired account even if the device was
\* superseded, 401 for a superseded device on an entitled account.
C34_VerifyCheckOrder ==
  \A s \in Sessions, t \in 0..MaxTokens :
    VerifyOrder(s, t) # 0 => VerifyStatus(s, t) = VerifyOrder(s, t)

\* the request of client s reaches its handler with the session it came with
SessionSurvives(s) == ~SessionGone(s) /\ ~Regenerates(s)

\* the account that token t of session s was issued to
Owner(s, t) == TokenData(s, t).userId

\* C37 as stated: a verify-token request removes a token record only when it
\* rejects for a device mismatch, and a verify of a token whose account is
\* deactivated or expired leaves the record in place.
C37_VerifyRemovesOnlyOnDeviceMismatch ==
  \A s \in Sessions, t \in TokenIds :
    HasToken(s, t) =>
      LET after == AfterVerify(s, t)[s].desktopTokens IN
        /\ after # sess[s].desktopTokens =>
              (VerifyStatus(s, t) = 401 /\ VerifyReachesDeviceCheck(s, t))
        /\ (db[Owner(s, t)].exists /\ ~Entitled(Owner(s, t))) =>
              TokenData(s, t) \in after

\* C37, for a request whose session passes sessionSecurity and loadUser: the
\* handler removes the record of the presented token, and nothing else, only
\* when it answers 401 for the device on an entitled account; a 403 leaves
\* the whole session as it was; after the device rejection a logout with the
\* token answers 401.
C37_HandlerRemovesOnlyOnDeviceMismatch ==
  /\ [](\A s \in Sessions, t \in TokenIds :
          (SessionSurvives(s) /\ HasToken(s, t)) =>
            LET after == AfterVerify(s, t)[s].desktopTokens IN
              /\ after # sess[s].desktopTokens =>
                    /\ VerifyStatus(s, t) = 401
                    /\ Entitled(Owner(s, t))
                    /\ after = sess[s].desktopTokens \ {TokenData(s, t)}
              /\ (db[Owner(s, t)].exists /\ ~Entitled(Owner(s, t))) =>
                    /\ VerifyStatus(s, t) = 403
                    /\ AfterVerify(s, t) = sess)
  /\ [][\A s \in Sessions, t \in TokenIds :
          (VerifyToken(s, t) /\ SessionSurvives(s) /\ HasToken(s, t)
           /\ VerifyStatus(s, t) = 401)
            => (~HasToken(s, t)' /\ LogoutStatus(s, t)' = 401)]_vars

\* token 1 was removed by a verify that reached the device check, token 2 is
\* still in the table while its account is deactivated and verifies as 403
C37_Witness ==
  /\ nextTok > 2
  /\ sess["s1"].activeDevicesSet /\ sess["s1"].sid = 1
  /\ ~HasToken("s1", 1) /\ LogoutStatus("s1", 1) = 401
  /\ HasToken("s1", 2) /\ ~db["alice"].isActive
  /\ VerifyStatus("s1", 2) = 403

----------------------------------------------------------------------------
(* Tokens and the session they were issued in *)

\* C36: a desktop token lives in the session it was issued in: presented in
\* a session whose table does not hold it (any other session, or the issuing
\* one after its table was lost), verify-token and logout answer 401, and a
\* step that destroys or regenerates a session (browser logout, browser
\* login, the periodic regeneration) leaves none of its tokens known anywhere.
C36_TokensLiveInIssuingSession ==
  /\ [](\A s \in Sessions, t \in TokenIds :
          (t < nextTok /\ ~HasToken(s, t))
            => (VerifyStatus(s, t) = 401 /\ LogoutStatus(s, t) = 401))
  /\ [][\A s \in Sessions :
          sess'[s].sid # sess[s].sid =>
            \A r \in sess[s].desktopTokens, o \in Sessions : ~HasToken(o, r.token)']_vars

----------------------------------------------------------------------------
(* The redirect after a browser login *)

\* C35: a successful browser login redirects to the URL that an
\* unauthenticated request stored as returnTo in the session, and to
\* /dashboard only when no returnTo is stored.
C35_LoginRedirectsToReturnTo ==
  [][\A p \in Sessions :
       (proc[p].pc = "found" /\ proc[p].kind = "web" /\ WebLoginSucceeds(p))
         => proc'[p].msg = IF sess[p].returnTo # None THEN sess[p].returnTo
                           ELSE "/dashboard"]_vars

----------------------------------------------------------------------------
(* Denials and the session *)

\* the request of session s is denied by checkPackageValidity in this step
DeniedByCheck(s) ==
  /\ proc[s].pc = "checking" /\ proc[s].kind = "dash"
  /\ proc'[s].pc = "done" /\ proc'[s].status # 200

\* C32: every path that denies a request because the session's account is
\* deleted, deactivated or expired also destroys the session: loadUser
\* replaces the session, and a denial by checkPackageValidity leaves the
\* client with a new session that holds no identity.
C32_DenialDestroysSession ==
  /\ [](\A s \in Sessions :
          (sess[s].user.id # None /\ ~sess[s].old /\ ~Entitled(sess[s].user.id)) =>
            (BrowserSession(s, "GET", 0).sid # sess[s].sid
             /\ BrowserSession(s, "GET", 0).user.id = None))
  /\ [][\A s \in Sessions :
          DeniedByCheck(s) => (sess'[s].sid # sess[s].sid /\ sess'[s].user.id = None)]_vars

----------------------------------------------------------------------------
(* Deactivation of administrators *)

\* C39: after any sequence of bulk deactivations and user edits at least one
\* account with the admin role and the activation flag set remains.
C39_AlwaysAnActiveAdmin == \E u \in Users : ActiveAdmin(u)

----------------------------------------------------------------------------
(* Packages of the standard accounts *)

\* C38: every account with the standard role references a stored package,
\* and every stored package has a credit allowance in 0..1,000,000 and a
\* concurrency limit in 1..1000.
C38_StandardAccountsHaveBoundedPackage ==
  /\ \A u \in Users :
       (db[u].exists /\ db[u].role = "user") =>
         (db[u].package # None /\ packages[db[u].package])
  /\ \A k \in Packages :
       packages[k] => ValidPackageForm(limits[k].emailCredits, limits[k].concurrencyLimit)

----------------------------------------------------------------------------
(* SimpleCache *)

\* C40: the timers map and the cache map have the same keys, get never
\* returns a value whose expiry is before the current time, every pending
\* timeout is the one of its key's current value, and a timeout that fires
\* removes only the value stored by the set call that scheduled it.
C40_CacheConsistent ==
  /\ [](\A key \in Keys : (timers[key] # NoTimer) <=> (cache[key] # NoItem))
  /\ [](\A key \in Keys : Get(key) # None => cache[key].expiry >= clock)
  /\ [](\A tm \in queue : timers[tm.key] = tm.id /\ cache[tm.key].gen = tm.id)
  /\ [][\A tm \in Timeouts :
          TimerFires(tm) => (cache[tm.key] = NoItem \/ cache[tm.key].gen = tm.id)]_vars

\* k1 was set twice, the second value outlived the due time of the first
\* timeout, and k2 was evicted by its timeout
C40_Witness ==
  /\ cache["k1"].gen = 2 /\ clock > 1 /\ Get("k1") # None
  /\ nextTimer > 3 /\ cache["k2"] = NoItem /\ timers["k2"] = NoTimer

----------------------------------------------------------------------------
(* Unique usernames and emails *)

\* the request of session a ends in this step with an error page
FormRejected(a) ==
  /\ proc'[a] # proc[a]
  /\ proc'[a].pc = "done" /\ proc'[a].kind = "admin" /\ proc'[a].status # 302

\* C31: no two stored accounts share a username or an email, whatever the
\* interleaving of user creates and edits; a create or edit that would produce
\* a duplicate ends with an error page, and a request that ends with an error
\* page changes no account.
C31_UsernamesAndEmailsUnique ==
  /\ [](\A u, v \in Users :
          (u # v /\ db[u].exists /\ db[v].exists) =>
            (db[u].username # db[v].username /\ db[u].email # db[v].email))
  /\ [][\A a \in Sessions :
          /\ FormRejected(a) => db' = db
          /\ (proc[a].pc = "saving" /\ proc'[a] # proc[a]
               /\ ExistingUser(IF proc[a].op = "edit" THEN proc[a].uid ELSE None,
                               proc[a].username, proc[a].email))
                => (FormRejected(a) /\ db' = db)]_vars

\* both administrators asked for the same new username at the same time: the
\* first save went through, the second was rejected
C31_Witness ==
  /\ db["root"].username = "carol" /\ db["alice"].exists
  /\ db["alice"].username = "alice"
  /\ proc["s1"].pc = "done" /\ proc["s1"].kind = "admin"
  /\ proc["s1"].msg = "An error occurred"
  /\ proc["s2"].pc = "done" /\ proc["s2"].msg = "User updated successfully"

============================================================================
